---- MODULE Spec2Model ----
(***************************************************************************)
(* ChaosDefenseTD: the simulation core of the game store (state/gameStore) *)
(* and its six update managers.                                            *)
(*                                                                         *)
(* Units.  Time is in whole seconds, distances in pixels, tiles are        *)
(* TILE_SIZE pixels wide.  Numbers the code keeps as fractions are kept    *)
(* as hundredths: a slow potency of 0.5 is 50, the 100% cap is One, a      *)
(* fire rate of 0.25/s is 25 and a boost multiplier of 1.5 is 150.  The    *)
(* configuration tables below are inputs (the JSON tables are not part of  *)
(* the sources); their values are chosen so that every division is exact.  *)
(*                                                                         *)
(* A Record<string, T> of the store is a sequence of records with distinct *)
(* ids: JavaScript iterates string keys in insertion order.  uuidv4() is a *)
(* counter of fresh ids.                                                   *)
(***************************************************************************)
EXTENDS Integers, Sequences, FiniteSets, TLC

\* ------------------------------------------------------------------ bounds
MaxDt == 2          \* a tick advances 1..MaxDt seconds
MaxTime == 26       \* no tick starts once this many seconds have been simulated
MaxTowers == 2      \* towers the player places in one session

\* --------------------------------------------------------------- constants
One == 100
TILE_SIZE == 32
ProjectileSpeed == 500
RetargetRange == 50
ChainRange == 200
FallbackCooldown == 1
InitialGold == 200
InitialHealth == 25
InitialCountdown == 10
DefaultTimeBetweenWaves == 15

\* ------------------------------------------------------------ configuration
NoEffects == << >>

Eff(id, potency, duration) == [id |-> id, potency |-> potency, duration |-> duration]

EnemyTypes ==
    [ grunt   |-> [hp |-> 5,  speed |-> 40, armor |-> 2, bounty |-> 5, damage |-> 3,
                   immunities |-> {}, min_level_difficulty |-> 1],
      crawler |-> [hp |-> 40, speed |-> 10, armor |-> 5, bounty |-> 8, damage |-> 30,
                   immunities |-> {"slow"}, min_level_difficulty |-> 1],
      brute   |-> [hp |-> 90, speed |-> 20, armor |-> 9, bounty |-> 20, damage |-> 50,
                   immunities |-> {}, min_level_difficulty |-> 2] ]

EnemyTypeIds == <<"grunt", "crawler", "brute">>

NoAttack == [type |-> "none", damage |-> 0, dps |-> 0, range |-> 0, fire_rate |-> 0,
             blast_radius |-> 0, radius |-> 0, duration |-> 0, pierce |-> 0, chains |-> 0,
             effects |-> NoEffects, on_blast_effects |-> NoEffects]

TowerTypes ==
    [ archer   |-> [cost |-> 100, auras |-> << >>,
                    attack |-> [NoAttack EXCEPT !.type = "standard_projectile", !.damage = 4,
                                    !.range = 40, !.fire_rate = 100, !.pierce = 1,
                                    !.effects = <<Eff("fire", 1, 2), Eff("slow", 50, 1)>>]],
      ballista |-> [cost |-> 200, auras |-> << >>,
                    attack |-> [NoAttack EXCEPT !.type = "standard_projectile", !.damage = 2,
                                    !.range = 40, !.fire_rate = 100, !.pierce = 2]],
      tesla    |-> [cost |-> 150, auras |-> << >>,
                    attack |-> [NoAttack EXCEPT !.type = "standard_projectile", !.damage = 3,
                                    !.range = 70, !.fire_rate = 50, !.chains = 1,
                                    !.blast_radius = 40,
                                    !.on_blast_effects = <<Eff("slow", 60, 2)>>]],
      firewall |-> [cost |-> 150, auras |-> << >>,
                    attack |-> [NoAttack EXCEPT !.type = "persistent_ground_aura", !.dps = 10,
                                    !.range = 40, !.fire_rate = 25, !.radius = 50,
                                    !.duration = 3,
                                    !.effects = <<Eff("slow", 30, 1)>>]],
      curse    |-> [cost |-> 100, auras |-> << >>,
                    attack |-> [NoAttack EXCEPT !.type = "persistent_attached_aura",
                                    !.range = 40, !.fire_rate = 50,
                                    !.effects = <<Eff("armor_break", 3, 3),
                                                  Eff("stun", One, 2)>>]],
      frost    |-> [cost |-> 100, attack |-> NoAttack,
                    auras |-> <<[range |-> 48, target_type |-> "ENEMY",
                                 effects |-> <<Eff("slow", 60, 1)>>]>>],
      banner   |-> [cost |-> 100, attack |-> NoAttack,
                    auras |-> <<[range |-> 64, target_type |-> "TOWER",
                                 effects |-> <<Eff("damage_boost", 150, 0)>>]>>] ]

\* towerUpgrades: the upgrade file of a tower type, the upgrades of its two paths
TowerUpgrades ==
    [ archer |-> [path_a |-> <<[id |-> "a1", cost |-> 50,
                                effects |-> <<[type |-> "add_damage", value |-> 2],
                                              [type |-> "add_blast_effect", value |-> 0]>>]>>,
                  path_b |-> <<[id |-> "b1", cost |-> 100,
                                effects |-> <<[type |-> "add_range", value |-> 8],
                                              [type |-> "multiply_fire_rate",
                                               value |-> 200]>>]>>] ]

TowerTypeIds == {"archer", "ballista", "tesla", "firewall", "curse", "frost", "banner"}

\* tiles the player clicks on (row 1 is buildable, the route runs on row 0)
BuildTiles == {[x |-> 1, y |-> 1]}

\* one route of four tile centres on row 0, as the level generator returns it
Paths == << <<[x |-> 16, y |-> 16], [x |-> 48, y |-> 16],
              [x |-> 80, y |-> 16], [x |-> 112, y |-> 16]>> >>

WaveScaling ==
    [enemy_count |-> [base |-> 100, per_wave |-> 100, per_level_difficulty |-> 50],
     spawn_cooldown |-> [minimum_seconds |-> 1, base_seconds |-> 2,
                         reduction_per_wave |-> 1, reduction_per_level_difficulty |-> 0]]

\* game_settings.json and the entry of difficulty_scaling.json for the
\* difficulty (time_between_waves 0: handleSpawning falls back to its default)
GameSettings == [difficulty |-> 1]

DifficultyScaling == [time_between_waves |-> 0]

Difficulty == GameSettings.difficulty

\* ----------------------------------------------------------------- helpers
Min(a, b) == IF a < b THEN a ELSE b
Max(a, b) == IF a > b THEN a ELSE b
Abs(a) == IF a < 0 THEN -a ELSE a

RECURSIVE ISqrtFrom(_, _)
ISqrtFrom(n, r) == IF (r + 1) * (r + 1) > n THEN r ELSE ISqrtFrom(n, r + 1)

DistanceSq(a, b) == (a.x - b.x) * (a.x - b.x) + (a.y - b.y) * (a.y - b.y)

\* Math.sqrt of the squared distance; exact on axis-aligned points
Distance(a, b) ==
    IF a.y = b.y THEN Abs(a.x - b.x)
    ELSE IF a.x = b.x THEN Abs(a.y - b.y)
    ELSE ISqrtFrom(DistanceSq(a, b), 0)

Ids(m) == {m[i].id : i \in 1..Len(m)}
Has(m, id) == id \in Ids(m)
IndexOf(m, id) == CHOOSE i \in 1..Len(m) : m[i].id = id
Get(m, id) == m[IndexOf(m, id)]

\* {...m, [r.id]: r}
Put(m, r) == IF Has(m, r.id) THEN [m EXCEPT ![IndexOf(m, r.id)] = r] ELSE Append(m, r)

\* delete m[id]
Del(m, id) == SelectSeq(m, LAMBDA r : r.id # id)

\* {...a, ...b}
RECURSIVE Merge(_, _)
Merge(a, b) == IF b = << >> THEN a ELSE Merge(Put(a, Head(b)), Tail(b))

Contains(s, v) == \E i \in 1..Len(s) : s[i] = v

\* --------------------------------------------------------------- the store
\* The store record s threads the store through the calls of one handler.
\* Its fields killed, rekilled, leaked, releaked, dmgPairs, dblPairs, expended
\* and auraDone only record what the handlers did; no handler reads them.

\* store action addGold
addGold(s, amount) == [s EXCEPT !.gold = s.gold + amount]

\* store action removeHealth
removeHealth(s, amount) == [s EXCEPT !.health = Max(0, s.health - amount)]

\* spawnEnemy leaving the store as it was
spawnEnemy_dropped(s, type, route) ==
    LET config == EnemyTypes[type]
        newEnemy == [id |-> s.nextId, type |-> type, route |-> route,
                     position |-> Paths[route][1], currentHp |-> config.hp,
                     pathIndex |-> 0, effects |-> << >>,
                     currentSpeed |-> config.speed, currentArmor |-> config.armor]
    IN  [s EXCEPT !.nextId = s.nextId + 1]

\* store action spawnEnemy
spawnEnemy(s, type, route) ==
    LET config == EnemyTypes[type]
        newEnemy == [id |-> s.nextId, type |-> type, route |-> route,
                     position |-> Paths[route][1], currentHp |-> config.hp,
                     pathIndex |-> 0, effects |-> << >>,
                     currentSpeed |-> config.speed, currentArmor |-> config.armor]
    IN  [s EXCEPT !.enemies = Put(s.enemies, newEnemy), !.nextId = s.nextId + 1]

\* store action removeEnemy
removeEnemy(s, enemyId) == [s EXCEPT !.enemies = Del(s.enemies, enemyId)]

\* store action damageEnemy
damageEnemy(s, enemyId, amount) ==
    IF ~Has(s.enemies, enemyId) THEN s
    ELSE LET enemy == Get(s.enemies, enemyId)
             newHp == enemy.currentHp - amount
         IN  IF newHp <= 0
             THEN [s EXCEPT !.enemies = Del(s.enemies, enemyId),
                            !.gold = s.gold + EnemyTypes[enemy.type].bounty,
                            !.rekilled = IF enemyId \in s.killed
                                         THEN s.rekilled \cup {enemyId} ELSE s.rekilled,
                            !.killed = s.killed \cup {enemyId}]
             ELSE [s EXCEPT !.enemies = Put(s.enemies, [enemy EXCEPT !.currentHp = newHp])]

\* StatusEffectManager.applyEffect: the new effect list of target.
\* age and due record the time decayed since, and the remaining time at, the
\* last application, refreshed that the instance has been applied again; the
\* handlers read none of the three.
\* applyEffect resetting the remaining time of a carried effect to the incoming duration
applyEffectList_reset(effects, effectData, sourceTowerId) ==
    IF \E i \in 1..Len(effects) : effects[i].id = effectData.id
    THEN [i \in 1..Len(effects) |->
            IF effects[i].id = effectData.id
            THEN [effects[i] EXCEPT
                    !.potency = Max(effects[i].potency, effectData.potency),
                    !.timeRemaining = effectData.duration,
                    !.sourceTowerId = sourceTowerId,
                    !.age = 0,
                    !.due = effectData.duration,
                    !.refreshed = TRUE]
            ELSE effects[i]]
    ELSE Append(effects, [id |-> effectData.id, potency |-> effectData.potency,
                          duration |-> effectData.duration,
                          timeRemaining |-> effectData.duration,
                          sourceTowerId |-> sourceTowerId,
                          age |-> 0, due |-> effectData.duration, refreshed |-> FALSE])

\* applyEffect without the search for a carried instance of the kind
applyEffectList_append(effects, effectData, sourceTowerId) ==
    Append(effects, [id |-> effectData.id, potency |-> effectData.potency,
                     duration |-> effectData.duration,
                     timeRemaining |-> effectData.duration,
                     sourceTowerId |-> sourceTowerId,
                     age |-> 0, due |-> effectData.duration, refreshed |-> FALSE])

applyEffectList(effects, effectData, sourceTowerId) ==
    IF \E i \in 1..Len(effects) : effects[i].id = effectData.id
    THEN [i \in 1..Len(effects) |->
            IF effects[i].id = effectData.id
            THEN [effects[i] EXCEPT
                    !.potency = Max(effects[i].potency, effectData.potency),
                    !.timeRemaining = Max(effects[i].timeRemaining, effectData.duration),
                    !.sourceTowerId = sourceTowerId,
                    !.age = 0,
                    !.due = Max(effects[i].timeRemaining, effectData.duration),
                    !.refreshed = TRUE]
            ELSE effects[i]]
    ELSE Append(effects, [id |-> effectData.id, potency |-> effectData.potency,
                          duration |-> effectData.duration,
                          timeRemaining |-> effectData.duration,
                          sourceTowerId |-> sourceTowerId,
                          age |-> 0, due |-> effectData.duration, refreshed |-> FALSE])

applyEffect(s, target, effectData, sourceTowerId) ==
    IF effectData.id \in EnemyTypes[target.type].immunities THEN s
    ELSE [s EXCEPT !.enemies =
            Put(s.enemies,
                [target EXCEPT !.effects =
                    applyEffectList(target.effects, effectData, sourceTowerId)])]

\* store action applyStatusEffect
applyStatusEffect(s, targetId, effect, sourceTowerId) ==
    IF Has(s.enemies, targetId)
    THEN applyEffect(s, Get(s.enemies, targetId), effect, sourceTowerId)
    ELSE s

RECURSIVE applyStatusEffects(_, _, _, _)
applyStatusEffects(s, targetId, effects, sourceTowerId) ==
    IF effects = << >> THEN s
    ELSE applyStatusEffects(applyStatusEffect(s, targetId, Head(effects), sourceTowerId),
                            targetId, Tail(effects), sourceTowerId)

TowerCenter(tower) == [x |-> tower.tilePosition.x * TILE_SIZE + TILE_SIZE \div 2,
                       y |-> tower.tilePosition.y * TILE_SIZE + TILE_SIZE \div 2]

\* store action placeTower
placeTower(s, type, tile) ==
    LET config == TowerTypes[type]
        newTower == [id |-> s.nextId, type |-> type, tilePosition |-> tile, cooldown |-> 0,
                     appliedUpgradeIds |-> << >>, totalInvestment |-> config.cost,
                     currentDamage |-> config.attack.damage,
                     currentRange |-> config.attack.range,
                     currentFireRate |-> config.attack.fire_rate,
                     currentPierce |-> config.attack.pierce,
                     currentChains |-> config.attack.chains]
    IN  [s EXCEPT !.towers = Put(s.towers, newTower), !.gold = s.gold - config.cost,
                  !.nextId = s.nextId + 1]

\* UpgradeService.applyEffect
applyUpgradeEffect(tower, effect) ==
    CASE effect.type = "add_damage" ->
            [tower EXCEPT !.currentDamage = tower.currentDamage + effect.value]
      [] effect.type = "add_range" ->
            [tower EXCEPT !.currentRange = tower.currentRange + effect.value]
      [] effect.type = "multiply_fire_rate" ->
            [tower EXCEPT !.currentFireRate = (tower.currentFireRate * effect.value) \div One]
      [] OTHER -> tower

\* UpgradeService.applyUpgrade: the effects of the upgrade applied in order to a copy
RECURSIVE applyUpgradeEffects(_, _)
applyUpgradeEffects(tower, effects) ==
    IF effects = << >> THEN tower
    ELSE applyUpgradeEffects(applyUpgradeEffect(tower, Head(effects)), Tail(effects))

applyUpgrade(tower, upgrade) == applyUpgradeEffects(tower, upgrade.effects)

\* the upgrade of the two paths with the id: its index in path_a ++ path_b, 0 when none
FindUpgrade(upgradeFile, upgradeId) ==
    LET all == upgradeFile.path_a \o upgradeFile.path_b
        hits == {i \in 1..Len(all) : all[i].id = upgradeId}
    IN  IF hits = {} THEN 0 ELSE CHOOSE i \in hits : \A j \in hits : i <= j

\* upgradeTower without the test of the applied upgrade ids
upgradeTower_noDuplicateTest(s, towerId, upgradeId) ==
    IF ~Has(s.towers, towerId) THEN s
    ELSE LET towerToUpgrade == Get(s.towers, towerId)
             towerTypeKey == towerToUpgrade.type
         IN  IF towerTypeKey \notin DOMAIN TowerUpgrades THEN s
             ELSE LET upgradeFile == TowerUpgrades[towerTypeKey]
                      all == upgradeFile.path_a \o upgradeFile.path_b
                      found == FindUpgrade(upgradeFile, upgradeId)
                  IN  IF \/ found = 0
                         \/ s.gold < all[found].cost
                      THEN s
                      ELSE LET upgradeConfig == all[found]
                               upgradedTower == applyUpgrade(towerToUpgrade, upgradeConfig)
                           IN  [s EXCEPT
                                  !.gold = s.gold - upgradeConfig.cost,
                                  !.towers = Put(s.towers,
                                      [upgradedTower EXCEPT
                                          !.appliedUpgradeIds =
                                              Append(upgradedTower.appliedUpgradeIds, upgradeId),
                                          !.totalInvestment =
                                              upgradedTower.totalInvestment
                                                  + upgradeConfig.cost])]

\* upgradeTower without the test of the cost against gold
upgradeTower_noCostTest(s, towerId, upgradeId) ==
    IF ~Has(s.towers, towerId) THEN s
    ELSE LET towerToUpgrade == Get(s.towers, towerId)
             towerTypeKey == towerToUpgrade.type
         IN  IF towerTypeKey \notin DOMAIN TowerUpgrades THEN s
             ELSE LET upgradeFile == TowerUpgrades[towerTypeKey]
                      all == upgradeFile.path_a \o upgradeFile.path_b
                      found == FindUpgrade(upgradeFile, upgradeId)
                  IN  IF \/ found = 0
                         \/ Contains(towerToUpgrade.appliedUpgradeIds, upgradeId)
                      THEN s
                      ELSE LET upgradeConfig == all[found]
                               upgradedTower == applyUpgrade(towerToUpgrade, upgradeConfig)
                           IN  [s EXCEPT
                                  !.gold = s.gold - upgradeConfig.cost,
                                  !.towers = Put(s.towers,
                                      [upgradedTower EXCEPT
                                          !.appliedUpgradeIds =
                                              Append(upgradedTower.appliedUpgradeIds, upgradeId),
                                          !.totalInvestment =
                                              upgradedTower.totalInvestment
                                                  + upgradeConfig.cost])]

\* store action upgradeTower
upgradeTower(s, towerId, upgradeId) ==
    IF ~Has(s.towers, towerId) THEN s
    ELSE LET towerToUpgrade == Get(s.towers, towerId)
             towerTypeKey == towerToUpgrade.type
         IN  IF towerTypeKey \notin DOMAIN TowerUpgrades THEN s
             ELSE LET upgradeFile == TowerUpgrades[towerTypeKey]
                      all == upgradeFile.path_a \o upgradeFile.path_b
                      found == FindUpgrade(upgradeFile, upgradeId)
                  IN  IF \/ found = 0
                         \/ s.gold < all[found].cost
                         \/ Contains(towerToUpgrade.appliedUpgradeIds, upgradeId)
                      THEN s
                      ELSE LET upgradeConfig == all[found]
                               upgradedTower == applyUpgrade(towerToUpgrade, upgradeConfig)
                           IN  [s EXCEPT
                                  !.gold = s.gold - upgradeConfig.cost,
                                  !.towers = Put(s.towers,
                                      [upgradedTower EXCEPT
                                          !.appliedUpgradeIds =
                                              Append(upgradedTower.appliedUpgradeIds, upgradeId),
                                          !.totalInvestment =
                                              upgradedTower.totalInvestment
                                                  + upgradeConfig.cost])]

\* Grid.getTile: the type of the tile, "none" for a coordinate outside the grid
getTile(grid, tile) ==
    IF ~(tile.x >= 0 /\ tile.x < grid.width /\ tile.y >= 0 /\ tile.y < grid.height)
    THEN "none"
    ELSE IF tile \in grid.path THEN "PATH" ELSE "BUILDABLE"

\* handleClick without the test of the tile type
handleClick_noTileTest(s, grid, selectedTowerForBuild, tile) ==
    IF selectedTowerForBuild = "none" \/ grid.width = 0 THEN s
    ELSE IF \/ selectedTowerForBuild \notin DOMAIN TowerTypes
            \/ s.gold < TowerTypes[selectedTowerForBuild].cost
         THEN s
         ELSE placeTower(s, selectedTowerForBuild, tile)

\* handleClick without the test of the cost against gold
handleClick_noGoldTest(s, grid, selectedTowerForBuild, tile) ==
    IF selectedTowerForBuild = "none" \/ grid.width = 0 THEN s
    ELSE IF selectedTowerForBuild \notin DOMAIN TowerTypes
         THEN s
         ELSE IF getTile(grid, tile) # "BUILDABLE" THEN s
              ELSE placeTower(s, selectedTowerForBuild, tile)

\* GameCanvas.handleClick on a tile with selectedTowerForBuild ("none" for null)
handleClick(s, grid, selectedTowerForBuild, tile) ==
    IF selectedTowerForBuild = "none" \/ grid.width = 0 THEN s
    ELSE IF \/ selectedTowerForBuild \notin DOMAIN TowerTypes
            \/ s.gold < TowerTypes[selectedTowerForBuild].cost
         THEN s
         ELSE IF getTile(grid, tile) # "BUILDABLE" THEN s
              ELSE placeTower(s, selectedTowerForBuild, tile)

\* store action spawnProjectile
spawnProjectile(s, tower, targetId) ==
    LET attackData == TowerTypes[tower.type].attack
        newProjectile == [id |-> s.nextId, sourceTowerId |-> tower.id,
                          position |-> TowerCenter(tower), targetId |-> targetId,
                          speed |-> ProjectileSpeed, damage |-> tower.currentDamage,
                          blastRadius |-> attackData.blast_radius,
                          pierce |-> tower.currentPierce, chains |-> tower.currentChains,
                          effectsToApply |-> attackData.effects,
                          onBlastEffects |-> attackData.on_blast_effects,
                          hitEnemyIds |-> << >>,
                          pierce0 |-> tower.currentPierce, chains0 |-> tower.currentChains]
    IN  IF attackData.type = "none" THEN s
        ELSE [s EXCEPT !.projectiles = Put(s.projectiles, newProjectile),
                       !.nextId = s.nextId + 1]

\* store action removeProjectile
removeProjectile(s, projectileId) == [s EXCEPT !.projectiles = Del(s.projectiles, projectileId)]

\* store action addAura
addAura(s, aura) == [s EXCEPT !.auras = Put(s.auras, aura)]

\* ------------------------------------------------------------ TowerManager
worldToTile(worldPos) == [x |-> worldPos.x \div TILE_SIZE, y |-> worldPos.y \div TILE_SIZE]

\* getDistance(tower.tilePosition, worldToTile(enemy.position)) <= aura.range / 32
InPassiveAura(tower, aura, enemy) ==
    TILE_SIZE * TILE_SIZE * DistanceSq(tower.tilePosition, worldToTile(enemy.position))
        <= aura.range * aura.range

\* the passive ENEMY auras of one tower, applied to the enemies of enemyList
RECURSIVE ApplyToEnemies(_, _, _, _)
ApplyToEnemies(s, enemyList, effects, sourceTowerId) ==
    IF enemyList = << >> THEN s
    ELSE ApplyToEnemies(applyStatusEffects(s, Head(enemyList).id, effects, sourceTowerId),
                        Tail(enemyList), effects, sourceTowerId)

RECURSIVE PassiveAuras(_, _, _, _)
PassiveAuras(s, tower, auras, enemyList) ==
    IF auras = << >> THEN s
    ELSE LET aura == Head(auras)
             enemiesInAura == SelectSeq(enemyList, LAMBDA e : InPassiveAura(tower, aura, e))
             s1 == IF aura.target_type = "ENEMY"
                   THEN ApplyToEnemies(s, enemiesInAura, aura.effects, tower.id)
                   ELSE s
         IN  PassiveAuras(s1, tower, Tail(auras), enemyList)

\* one support aura's effects folded into the transient copy
RECURSIVE BuffEffects(_, _)
BuffEffects(buffedTower, effects) ==
    IF effects = << >> THEN buffedTower
    ELSE LET effect == Head(effects)
             b == CASE effect.id = "damage_boost" ->
                          [buffedTower EXCEPT !.currentDamage =
                              (buffedTower.currentDamage * effect.potency) \div One]
                    [] effect.id = "fire_rate_boost" ->
                          [buffedTower EXCEPT !.currentFireRate =
                              (buffedTower.currentFireRate * effect.potency) \div One]
                    [] effect.id = "range_boost" ->
                          [buffedTower EXCEPT !.currentRange =
                              (buffedTower.currentRange * effect.potency) \div One]
                    [] OTHER -> buffedTower
         IN  BuffEffects(b, Tail(effects))

RECURSIVE BuffAuras(_, _, _)
BuffAuras(buffedTower, auras, distanceSq) ==
    IF auras = << >> THEN buffedTower
    ELSE LET aura == Head(auras)
             b == IF aura.target_type = "TOWER"
                     /\ distanceSq * TILE_SIZE * TILE_SIZE <= aura.range * aura.range
                  THEN BuffEffects(buffedTower, aura.effects)
                  ELSE buffedTower
         IN  BuffAuras(b, Tail(auras), distanceSq)

RECURSIVE applySupportBuffs(_, _)
applySupportBuffs(towerToBuff, allSupportTowers) ==
    IF allSupportTowers = << >> THEN towerToBuff
    ELSE LET supportTower == Head(allSupportTowers)
             b == IF supportTower.id = towerToBuff.id THEN towerToBuff
                  ELSE BuffAuras(towerToBuff, TowerTypes[supportTower.type].auras,
                                 DistanceSq(towerToBuff.tilePosition,
                                            supportTower.tilePosition))
         IN  applySupportBuffs(b, Tail(allSupportTowers))

InTowerRange_doubled(tower, enemy) ==
    DistanceSq(TowerCenter(tower), enemy.position)
        <= (2 * tower.currentRange) * (2 * tower.currentRange)

InTowerRange(tower, enemy) ==
    DistanceSq(TowerCenter(tower), enemy.position) <= tower.currentRange * tower.currentRange

\* findTarget taking the in-range enemy first in the enemy list
findTarget_firstInRange(tower, enemyList) ==
    LET inRange == {i \in 1..Len(enemyList) : InTowerRange(tower, enemyList[i])}
    IN  IF inRange = {} THEN 0
        ELSE CHOOSE i \in inRange : \A j \in inRange : i <= j

\* findTarget: the in-range enemy first in the stable descending sort by pathIndex;
\* 0 when there is none, else its index in the enemy list
findTarget(tower, enemyList) ==
    LET inRange == {i \in 1..Len(enemyList) : InTowerRange(tower, enemyList[i])}
    IN  IF inRange = {} THEN 0
        ELSE CHOOSE i \in inRange :
                \A j \in inRange :
                    \/ enemyList[j].pathIndex < enemyList[i].pathIndex
                    \/ enemyList[j].pathIndex = enemyList[i].pathIndex /\ i <= j

\* AttackHandler.handleGroundAura
handleGroundAura(s, tower, target) ==
    LET attackData == TowerTypes[tower.type].attack
        aura == [id |-> s.nextId, sourceTowerId |-> tower.id, position |-> target.position,
                 radius |-> attackData.radius, duration |-> attackData.duration,
                 timeRemaining |-> attackData.duration, effects |-> attackData.effects,
                 dps |-> attackData.dps,
                 dealt |-> 0,
                 always |-> {s.enemies[i].id : i \in 1..Len(s.enemies)}]
    IN  [addAura(s, aura) EXCEPT !.nextId = s.nextId + 1]

\* AttackHandler.handleAttachedAura
handleAttachedAura(s, tower, target) ==
    applyStatusEffects(s, target.id, TowerTypes[tower.type].attack.effects, tower.id)

\* AttackHandler.executeAttack
executeAttack(s, tower, target) ==
    LET type == TowerTypes[tower.type].attack.type
    IN  CASE type = "standard_projectile" -> spawnProjectile(s, tower, target.id)
          [] type = "persistent_ground_aura" -> handleGroundAura(s, tower, target)
          [] type = "persistent_attached_aura" -> handleAttachedAura(s, tower, target)
          [] OTHER -> s

\* the loop body attacking whatever the cooldown is
TowerStep_noCooldown(acc, tower, enemyList, supportTowers, d) ==
    LET s1 == PassiveAuras(acc.s, tower, TowerTypes[tower.type].auras, enemyList)
        cooled == Max(0, tower.cooldown - d)
        canAttack == TowerTypes[tower.type].attack.type # "none"
        targetIdx == IF canAttack THEN findTarget(tower, enemyList) ELSE 0
        buffedTower == applySupportBuffs(tower, supportTowers)
        fireRate == buffedTower.currentFireRate
        s2 == IF targetIdx # 0 THEN executeAttack(s1, buffedTower, enemyList[targetIdx])
              ELSE s1
        newCooldown == IF targetIdx # 0
                       THEN (IF fireRate > 0 THEN One \div fireRate ELSE FallbackCooldown)
                       ELSE cooled
        towerDidChange == cooled # tower.cooldown \/ targetIdx # 0
    IN  [s |-> s2,
         updatedTowers |-> IF towerDidChange
                           THEN Put(acc.updatedTowers, [tower EXCEPT !.cooldown = newCooldown])
                           ELSE acc.updatedTowers]

\* the loop body storing the buffed copy of the tower
TowerStep_storesBuffs(acc, tower, enemyList, supportTowers, d) ==
    LET s1 == PassiveAuras(acc.s, tower, TowerTypes[tower.type].auras, enemyList)
        cooled == Max(0, tower.cooldown - d)
        canAttack == cooled = 0 /\ TowerTypes[tower.type].attack.type # "none"
        targetIdx == IF canAttack THEN findTarget(tower, enemyList) ELSE 0
        buffedTower == applySupportBuffs(tower, supportTowers)
        fireRate == buffedTower.currentFireRate
        s2 == IF targetIdx # 0 THEN executeAttack(s1, buffedTower, enemyList[targetIdx])
              ELSE s1
        newCooldown == IF targetIdx # 0
                       THEN (IF fireRate > 0 THEN One \div fireRate ELSE FallbackCooldown)
                       ELSE cooled
        towerDidChange == cooled # tower.cooldown \/ targetIdx # 0
    IN  [s |-> s2,
         updatedTowers |-> IF towerDidChange
                           THEN Put(acc.updatedTowers, [buffedTower EXCEPT !.cooldown = newCooldown])
                           ELSE acc.updatedTowers]

\* the body of the loop over the towers; acc = [s, updatedTowers]
TowerStep(acc, tower, enemyList, supportTowers, d) ==
    LET s1 == PassiveAuras(acc.s, tower, TowerTypes[tower.type].auras, enemyList)
        cooled == Max(0, tower.cooldown - d)
        canAttack == cooled = 0 /\ TowerTypes[tower.type].attack.type # "none"
        targetIdx == IF canAttack THEN findTarget(tower, enemyList) ELSE 0
        buffedTower == applySupportBuffs(tower, supportTowers)
        fireRate == buffedTower.currentFireRate
        s2 == IF targetIdx # 0 THEN executeAttack(s1, buffedTower, enemyList[targetIdx])
              ELSE s1
        newCooldown == IF targetIdx # 0
                       THEN (IF fireRate > 0 THEN One \div fireRate ELSE FallbackCooldown)
                       ELSE cooled
        towerDidChange == cooled # tower.cooldown \/ targetIdx # 0
    IN  [s |-> s2,
         updatedTowers |-> IF towerDidChange
                           THEN Put(acc.updatedTowers, [tower EXCEPT !.cooldown = newCooldown])
                           ELSE acc.updatedTowers]

RECURSIVE TowerLoop(_, _, _, _, _)
TowerLoop(acc, towerList, enemyList, supportTowers, d) ==
    IF towerList = << >> THEN acc
    ELSE TowerLoop(TowerStep(acc, Head(towerList), enemyList, supportTowers, d),
                   Tail(towerList), enemyList, supportTowers, d)

\* TowerManager.update
TowerManagerUpdate(s, d) ==
    LET supportTowers == SelectSeq(s.towers, LAMBDA t : TowerTypes[t.type].auras # << >>)
        acc == TowerLoop([s |-> s, updatedTowers |-> << >>], s.towers, s.enemies,
                         supportTowers, d)
    IN  [acc.s EXCEPT !.towers = Merge(acc.s.towers, acc.updatedTowers)]

\* ------------------------------------------------------- ProjectileManager
Sign(a) == IF a > 0 THEN 1 ELSE IF a < 0 THEN -1 ELSE 0

\* position + getDirection(position, to) * distanceToMove
MoveToward(position, to, distanceToMove) ==
    LET dx == to.x - position.x
        dy == to.y - position.y
        length == Distance(position, to)
    IN  IF length = 0 THEN position
        ELSE [x |-> position.x + Sign(dx) * ((Abs(dx) * distanceToMove) \div length),
              y |-> position.y + Sign(dy) * ((Abs(dy) * distanceToMove) \div length)]

\* findNewTarget: 0 when there is none, else the index in allEnemies of the
\* first enemy at the least distance below range
findNewTarget(fromPosition, allEnemies, hitIds, range) ==
    LET cand == {i \in 1..Len(allEnemies) :
                    /\ ~Contains(hitIds, allEnemies[i].id)
                    /\ DistanceSq(fromPosition, allEnemies[i].position) < range * range}
    IN  IF cand = {} THEN 0
        ELSE CHOOSE i \in cand :
                \A j \in cand :
                    LET di == DistanceSq(fromPosition, allEnemies[i].position)
                        dj == DistanceSq(fromPosition, allEnemies[j].position)
                    IN  di < dj \/ (di = dj /\ i <= j)

\* handleHit works on acc = [s, p]: the store and the projectile it mutates
RecordDamage(s, projectileId, enemyId) ==
    IF ~Has(s.enemies, enemyId) THEN s
    ELSE
    [s EXCEPT !.dblPairs = IF <<projectileId, enemyId>> \in s.dmgPairs
                           THEN s.dblPairs \cup {<<projectileId, enemyId>>}
                           ELSE s.dblPairs,
              !.dmgPairs = s.dmgPairs \cup {<<projectileId, enemyId>>}]

\* the hit of one enemy without the hitEnemyIds.includes guard
HitEnemy_unguarded(acc, enemyId, effects) ==
    [s |-> applyStatusEffects(
                damageEnemy(RecordDamage(acc.s, acc.p.id, enemyId), enemyId, acc.p.damage),
                enemyId, effects, acc.p.sourceTowerId),
     p |-> [acc.p EXCEPT !.hitEnemyIds = Append(acc.p.hitEnemyIds, enemyId)]]

\* the guarded hit of one enemy: damage, effects, push
HitEnemy(acc, enemyId, effects) ==
    IF Contains(acc.p.hitEnemyIds, enemyId) THEN acc
    ELSE [s |-> applyStatusEffects(
                    damageEnemy(RecordDamage(acc.s, acc.p.id, enemyId), enemyId, acc.p.damage),
                    enemyId, effects, acc.p.sourceTowerId),
          p |-> [acc.p EXCEPT !.hitEnemyIds = Append(acc.p.hitEnemyIds, enemyId)]]

RECURSIVE BlastLoop(_, _)
BlastLoop(acc, enemiesInBlast) ==
    IF enemiesInBlast = << >> THEN acc
    ELSE BlastLoop(HitEnemy(acc, Head(enemiesInBlast).id, acc.p.onBlastEffects),
                   Tail(enemiesInBlast))

\* the pierce and chain state update at the end of handleHit
Continuation(p, target, enemies) ==
    IF p.pierce > 0 THEN [p EXCEPT !.pierce = p.pierce - 1]
    ELSE IF p.chains > 0
         THEN LET newTarget == findNewTarget(target.position, enemies, p.hitEnemyIds,
                                             ChainRange)
              IN  IF newTarget # 0
                  THEN [p EXCEPT !.targetId = enemies[newTarget].id, !.chains = p.chains - 1]
                  ELSE [p EXCEPT !.chains = 0]
         ELSE p

handleHit(s, projectile, target) ==
    LET enemies == s.enemies
        a1 == HitEnemy([s |-> s, p |-> projectile], target.id, projectile.effectsToApply)
        enemiesInBlast == SelectSeq(enemies, LAMBDA e :
                              DistanceSq(target.position, e.position)
                                  <= projectile.blastRadius * projectile.blastRadius)
        a2 == IF projectile.blastRadius > 0 THEN BlastLoop(a1, enemiesInBlast) ELSE a1
    IN  [s |-> a2.s, p |-> Continuation(a2.p, target, enemies)]

\* a projectile leaves by the expended branch of update
RecordExpended(s, p) ==
    [s EXCEPT !.expended = s.expended \cup
        {[id |-> p.id, pierce0 |-> p.pierce0, chains0 |-> p.chains0,
          hits |-> Len(p.hitEnemyIds),
          others |-> \E i \in 1..Len(s.enemies) :
                        ~Contains(p.hitEnemyIds, s.enemies[i].id)]}]

\* the loop body keeping a projectile that has no target and finds none
ProjectileStep_keepsLost(acc, projectile, enemies, d) ==
    LET hasTarget == Has(enemies, projectile.targetId)
        newTarget == IF hasTarget THEN 0
                     ELSE findNewTarget(projectile.position, enemies,
                                        projectile.hitEnemyIds, RetargetRange)
    IN  IF ~hasTarget /\ newTarget = 0
        THEN acc
        ELSE
        LET target == IF hasTarget THEN Get(enemies, projectile.targetId)
                      ELSE enemies[newTarget]
            p0 == [projectile EXCEPT !.targetId = target.id]
            distanceToMove == p0.speed * d
            collides == distanceToMove * distanceToMove
                            >= DistanceSq(p0.position, target.position)
            hit == handleHit(acc.s, [p0 EXCEPT !.position = target.position], target)
            s1 == IF collides THEN hit.s ELSE acc.s
            p1 == IF collides THEN hit.p ELSE p0
        IN  IF collides /\ p1.pierce <= 0 /\ p1.chains <= 0
            THEN [s |-> RecordExpended(s1, p1),
                  updatedProjectiles |-> Del(acc.updatedProjectiles, projectile.id)]
            ELSE [s |-> s1,
                  updatedProjectiles |->
                      Put(acc.updatedProjectiles,
                          [p1 EXCEPT !.position =
                              MoveToward(p1.position, target.position, distanceToMove)])]

\* the body of the loop over the projectiles; acc = [s, updatedProjectiles];
\* enemies is the read of the store taken when update starts
ProjectileStep(acc, projectile, enemies, d) ==
    LET hasTarget == Has(enemies, projectile.targetId)
        newTarget == IF hasTarget THEN 0
                     ELSE findNewTarget(projectile.position, enemies,
                                        projectile.hitEnemyIds, RetargetRange)
    IN  IF ~hasTarget /\ newTarget = 0
        THEN [acc EXCEPT !.updatedProjectiles = Del(acc.updatedProjectiles, projectile.id)]
        ELSE
        LET target == IF hasTarget THEN Get(enemies, projectile.targetId)
                      ELSE enemies[newTarget]
            p0 == [projectile EXCEPT !.targetId = target.id]
            distanceToMove == p0.speed * d
            collides == distanceToMove * distanceToMove
                            >= DistanceSq(p0.position, target.position)
            hit == handleHit(acc.s, [p0 EXCEPT !.position = target.position], target)
            s1 == IF collides THEN hit.s ELSE acc.s
            p1 == IF collides THEN hit.p ELSE p0
        IN  IF collides /\ p1.pierce <= 0 /\ p1.chains <= 0
            THEN [s |-> RecordExpended(s1, p1),
                  updatedProjectiles |-> Del(acc.updatedProjectiles, projectile.id)]
            ELSE [s |-> s1,
                  updatedProjectiles |->
                      Put(acc.updatedProjectiles,
                          [p1 EXCEPT !.position =
                              MoveToward(p1.position, target.position, distanceToMove)])]

RECURSIVE ProjectileLoop(_, _, _, _)
ProjectileLoop(acc, projectileList, enemies, d) ==
    IF projectileList = << >> THEN acc
    ELSE ProjectileLoop(ProjectileStep(acc, Head(projectileList), enemies, d),
                        Tail(projectileList), enemies, d)

\* ProjectileManager.update
ProjectileManagerUpdate(s, d) ==
    LET acc == ProjectileLoop([s |-> s, updatedProjectiles |-> s.projectiles],
                              s.projectiles, s.enemies, d)
    IN  [acc.s EXCEPT !.projectiles = acc.updatedProjectiles]

\* ------------------------------------------------------------- AuraManager
InAuraRadius(aura, enemy) ==
    DistanceSq(aura.position, enemy.position) <= aura.radius * aura.radius

RECURSIVE AuraEnemies(_, _, _, _)
AuraEnemies(s, aura, enemiesInRadius, d) ==
    IF enemiesInRadius = << >> THEN s
    ELSE LET enemy == Head(enemiesInRadius)
             s1 == IF aura.dps > 0 THEN damageEnemy(s, enemy.id, aura.dps * d) ELSE s
             s2 == applyStatusEffects(s1, enemy.id, aura.effects, aura.sourceTowerId)
         IN  AuraEnemies(s2, aura, Tail(enemiesInRadius), d)

AuraStep_keepsExpired(acc, aura0, enemyList, d) ==
    LET enemiesInRadius == SelectSeq(enemyList, LAMBDA e : InAuraRadius(aura0, e))
        stayed == aura0.always \cap Ids(enemiesInRadius) \cap Ids(acc.s.enemies)
        aura == [aura0 EXCEPT !.timeRemaining = aura0.timeRemaining - d, !.always = stayed]
    IN  IF aura.timeRemaining < 0
        THEN [s |-> [acc.s EXCEPT !.auraDone = acc.s.auraDone \cup
                        {[id |-> aura.id, dps |-> aura.dps, duration |-> aura.duration,
                          dealt |-> aura.dealt, always |-> aura.always,
                          exact |-> aura.timeRemaining = 0]}],
              updatedAuras |-> Del(acc.updatedAuras, aura.id)]
        ELSE [s |-> AuraEnemies(acc.s, aura, enemiesInRadius, d),
              updatedAuras |->
                  Put(acc.updatedAuras,
                      [aura EXCEPT !.dealt = IF aura.dps > 0 THEN aura.dealt + aura.dps * d
                                             ELSE aura.dealt])]

\* the body of the loop over the auras; acc = [s, updatedAuras]
AuraStep(acc, aura0, enemyList, d) ==
    LET enemiesInRadius == SelectSeq(enemyList, LAMBDA e : InAuraRadius(aura0, e))
        stayed == aura0.always \cap Ids(enemiesInRadius) \cap Ids(acc.s.enemies)
        aura == [aura0 EXCEPT !.timeRemaining = aura0.timeRemaining - d, !.always = stayed]
    IN  IF aura.timeRemaining <= 0
        THEN [s |-> [acc.s EXCEPT !.auraDone = acc.s.auraDone \cup
                        {[id |-> aura.id, dps |-> aura.dps, duration |-> aura.duration,
                          dealt |-> aura.dealt, always |-> aura.always,
                          exact |-> aura.timeRemaining = 0]}],
              updatedAuras |-> Del(acc.updatedAuras, aura.id)]
        ELSE [s |-> AuraEnemies(acc.s, aura, enemiesInRadius, d),
              updatedAuras |->
                  Put(acc.updatedAuras,
                      [aura EXCEPT !.dealt = IF aura.dps > 0 THEN aura.dealt + aura.dps * d
                                             ELSE aura.dealt])]

RECURSIVE AuraLoop(_, _, _, _)
AuraLoop(acc, auraList, enemyList, d) ==
    IF auraList = << >> THEN acc
    ELSE AuraLoop(AuraStep(acc, Head(auraList), enemyList, d), Tail(auraList), enemyList, d)

\* AuraManager.update
AuraManagerUpdate(s, d) ==
    LET acc == AuraLoop([s |-> s, updatedAuras |-> s.auras], s.auras, s.enemies, d)
    IN  [acc.s EXCEPT !.auras = acc.updatedAuras]

\* ----------------------------------------------------- StatusEffectManager
IsDoT(effect) == effect.id \in {"fire", "bleed", "poison"}

\* effects.map(timeRemaining - dt).filter(timeRemaining > 0)
Decay(effects, d) ==
    SelectSeq([i \in 1..Len(effects) |->
                  [effects[i] EXCEPT !.timeRemaining = effects[i].timeRemaining - d,
                                     !.age = Min(effects[i].age + d, effects[i].due)]],
              LAMBDA e : e.timeRemaining > 0)

RECURSIVE DoTDamage(_, _, _, _)
DoTDamage(s, enemyId, currentEffects, d) ==
    IF currentEffects = << >> THEN s
    ELSE LET effect == Head(currentEffects)
             s1 == IF IsDoT(effect) THEN damageEnemy(s, enemyId, effect.potency * d) ELSE s
         IN  DoTDamage(s1, enemyId, Tail(currentEffects), d)

\* the time an effect has decayed is recorded also when its decrement is not kept
Aged(s, enemyId, d) ==
    IF ~Has(s.enemies, enemyId) THEN s
    ELSE LET enemy == Get(s.enemies, enemyId)
         IN  [s EXCEPT !.enemies = Put(s.enemies,
                [enemy EXCEPT !.effects =
                    [i \in 1..Len(enemy.effects) |->
                        [enemy.effects[i] EXCEPT
                            !.age = Min(enemy.effects[i].age + d, enemy.effects[i].due)]]])]

\* the body of the loop over the enemies; acc = [s, updatedEnemies]
StatusStep(acc, enemy, d) ==
    IF enemy.effects = << >> THEN acc
    ELSE LET remainingEffects == Decay(enemy.effects, d)
             changed == Len(remainingEffects) # Len(enemy.effects)
             currentEffects == IF changed THEN remainingEffects ELSE enemy.effects
             s1 == DoTDamage(acc.s, enemy.id, currentEffects, d)
         IN  [s |-> IF changed THEN s1 ELSE Aged(s1, enemy.id, d),
              updatedEnemies |->
                  IF changed
                  THEN Put(acc.updatedEnemies, [enemy EXCEPT !.effects = remainingEffects])
                  ELSE acc.updatedEnemies]

RECURSIVE StatusLoop(_, _, _)
StatusLoop(acc, enemyList, d) ==
    IF enemyList = << >> THEN acc
    ELSE StatusLoop(StatusStep(acc, Head(enemyList), d), Tail(enemyList), d)

\* StatusEffectManager.update
StatusEffectManagerUpdate(s, d) ==
    LET acc == StatusLoop([s |-> s, updatedEnemies |-> << >>], s.enemies, d)
    IN  [acc.s EXCEPT !.enemies = Merge(acc.s.enemies, acc.updatedEnemies)]

\* ------------------------------------------------------------ EnemyManager
\* applyEffectModifiers: what the fold leaves in [speed, armor]; acc.slow is
\* totalSlowPotency
RECURSIVE FoldEffects(_, _)
FoldEffects(acc, effects) ==
    IF effects = << >> THEN acc
    ELSE LET effect == Head(effects)
             a == CASE effect.id = "slow" -> [acc EXCEPT !.slow = acc.slow + effect.potency]
                    [] effect.id = "stun" -> [acc EXCEPT !.slow = One]
                    [] effect.id = "armor_break" ->
                          [acc EXCEPT !.armor = acc.armor - effect.potency]
                    [] OTHER -> acc
         IN  FoldEffects(a, Tail(effects))

\* the slow applied without the cap at 100%
SlowedSpeed_uncapped(speed, totalSlowPotency) ==
    IF totalSlowPotency > 0
    THEN (speed * (One - totalSlowPotency)) \div One
    ELSE speed

SlowedSpeed(speed, totalSlowPotency) ==
    IF totalSlowPotency > 0
    THEN (speed * (One - Min(totalSlowPotency, One))) \div One
    ELSE speed

FlooredArmor(armor) == Max(0, armor)

applyEffectModifiers(enemy) ==
    LET base == EnemyTypes[enemy.type]
        folded == FoldEffects([slow |-> 0, armor |-> base.armor], enemy.effects)
    IN  IF enemy.effects = << >>
        THEN [enemy EXCEPT !.currentSpeed = base.speed, !.currentArmor = base.armor]
        ELSE [enemy EXCEPT !.currentSpeed = SlowedSpeed(base.speed, folded.slow),
                           !.currentArmor = FlooredArmor(folded.armor)]

LastIndex(enemy) == Len(Paths[enemy.route]) - 1

\* the movement of an enemy that has not consumed its route
Advance(enemy, d) ==
    LET targetPosition == Paths[enemy.route][enemy.pathIndex + 2]
        distanceToMove == enemy.currentSpeed * d
    IN  IF distanceToMove >= Distance(enemy.position, targetPosition)
        THEN [enemy EXCEPT !.position = targetPosition, !.pathIndex = enemy.pathIndex + 1]
        ELSE [enemy EXCEPT !.position =
                  MoveToward(enemy.position, targetPosition, distanceToMove)]

\* the loop body without the continue after the deduction of base health
EnemyStep_keeps(acc, enemy0, d) ==
    LET enemy == applyEffectModifiers(enemy0)
    IN  IF enemy.pathIndex >= LastIndex(enemy)
        THEN [acc EXCEPT !.updatedHealth = acc.updatedHealth - EnemyTypes[enemy.type].damage,
                         !.releaked = IF \E l \in acc.leaked : l[1] = enemy.id
                                      THEN acc.releaked \cup {enemy.id} ELSE acc.releaked,
                         !.leaked = acc.leaked \cup {<<enemy.id, enemy.type>>},
                         !.updatedEnemies = Append(acc.updatedEnemies, enemy)]
        ELSE [acc EXCEPT !.updatedEnemies = Append(acc.updatedEnemies, Advance(enemy, d))]

\* the body of the loop over the enemies; acc = [updatedEnemies, updatedHealth, leaked,
\* releaked]
EnemyStep(acc, enemy0, d) ==
    LET enemy == applyEffectModifiers(enemy0)
    IN  IF enemy.pathIndex >= LastIndex(enemy)
        THEN [acc EXCEPT !.updatedHealth = acc.updatedHealth - EnemyTypes[enemy.type].damage,
                         !.releaked = IF \E l \in acc.leaked : l[1] = enemy.id
                                      THEN acc.releaked \cup {enemy.id} ELSE acc.releaked,
                         !.leaked = acc.leaked \cup {<<enemy.id, enemy.type>>}]
        ELSE [acc EXCEPT !.updatedEnemies = Append(acc.updatedEnemies, Advance(enemy, d))]

RECURSIVE EnemyLoop(_, _, _)
EnemyLoop(acc, enemyList, d) ==
    IF enemyList = << >> THEN acc
    ELSE EnemyLoop(EnemyStep(acc, Head(enemyList), d), Tail(enemyList), d)

\* EnemyManager.update
EnemyManagerUpdate(s, d) ==
    LET acc == EnemyLoop([updatedEnemies |-> << >>, updatedHealth |-> s.health,
                          leaked |-> s.leaked, releaked |-> s.releaked], s.enemies, d)
    IN  IF s.enemies = << >> THEN s
        ELSE [s EXCEPT !.enemies = acc.updatedEnemies, !.health = acc.updatedHealth,
                       !.leaked = acc.leaked, !.releaked = acc.releaked]

\* ------------------------------------------------------------- WaveManager
\* enemyCount with Math.ceil for Math.floor
EnemyCount_roundedUp(newWaveNumber) ==
    (WaveScaling.enemy_count.base
        + WaveScaling.enemy_count.per_wave * newWaveNumber
        + WaveScaling.enemy_count.per_level_difficulty * Difficulty + One - 1) \div One

\* enemyCount: Math.floor of the linear formula, its coefficients in hundredths
EnemyCount(newWaveNumber) ==
    (WaveScaling.enemy_count.base
        + WaveScaling.enemy_count.per_wave * newWaveNumber
        + WaveScaling.enemy_count.per_level_difficulty * Difficulty) \div One

AvailableEnemies ==
    SelectSeq(EnemyTypeIds, LAMBDA id : EnemyTypes[id].min_level_difficulty <= Difficulty)

\* the queues the random draws of startNextWave can build
SpawnQueues(newWaveNumber) ==
    [1..EnemyCount(newWaveNumber) -> {AvailableEnemies[i] : i \in 1..Len(AvailableEnemies)}]

startNextWave(s, spawnQueue) ==
    IF AvailableEnemies = << >> THEN s
    ELSE [s EXCEPT !.currentWave = s.currentWave + 1,
                   !.waveState = [s.waveState EXCEPT !.waveInProgress = TRUE,
                                                     !.spawnQueue = spawnQueue,
                                                     !.spawnCooldown = 0]]

handleWaveCountdown(s, d, spawnQueue) ==
    LET newTimeToNextWave == s.waveState.timeToNextWave - d
        s1 == [s EXCEPT !.waveState.timeToNextWave = newTimeToNextWave]
    IN  IF newTimeToNextWave <= 0 THEN startNextWave(s1, spawnQueue) ELSE s1

CalculatedSpawnCooldown(currentWave) ==
    Max(WaveScaling.spawn_cooldown.minimum_seconds,
        WaveScaling.spawn_cooldown.base_seconds
            - WaveScaling.spawn_cooldown.reduction_per_wave * currentWave
            - WaveScaling.spawn_cooldown.reduction_per_level_difficulty * Difficulty)

\* handleSpawning ending the wave as soon as the queue is empty
handleSpawning_ignoresEnemies(s, d, route) ==
    LET spawnQueue == s.waveState.spawnQueue
        newSpawnCooldown == s.waveState.spawnCooldown - d
        timeBetweenWaves == IF DifficultyScaling.time_between_waves # 0
                            THEN DifficultyScaling.time_between_waves
                            ELSE DefaultTimeBetweenWaves
    IN  IF spawnQueue = << >>
        THEN IF TRUE
             THEN [s EXCEPT !.waveState = [s.waveState EXCEPT
                                              !.waveInProgress = FALSE,
                                              !.timeToNextWave = timeBetweenWaves]]
             ELSE s
        ELSE IF newSpawnCooldown <= 0
             THEN LET s1 == spawnEnemy(s, Head(spawnQueue), route)
                  IN  [s1 EXCEPT !.waveState =
                          [s1.waveState EXCEPT
                              !.spawnQueue = Tail(s1.waveState.spawnQueue),
                              !.spawnCooldown = CalculatedSpawnCooldown(s.currentWave)]]
             ELSE [s EXCEPT !.waveState.spawnCooldown = newSpawnCooldown]

\* handleSpawning ending the wave as soon as no enemy is alive, whatever the
\* spawn queue holds
handleSpawning_ignoresQueue(s, d, route) ==
    LET spawnQueue == s.waveState.spawnQueue
        newSpawnCooldown == s.waveState.spawnCooldown - d
        timeBetweenWaves == IF DifficultyScaling.time_between_waves # 0
                            THEN DifficultyScaling.time_between_waves
                            ELSE DefaultTimeBetweenWaves
    IN  IF s.enemies = << >>
        THEN [s EXCEPT !.waveState = [s.waveState EXCEPT
                                         !.waveInProgress = FALSE,
                                         !.timeToNextWave = timeBetweenWaves]]
        ELSE IF spawnQueue = << >> THEN s
        ELSE IF newSpawnCooldown <= 0
             THEN LET s1 == spawnEnemy(s, Head(spawnQueue), route)
                  IN  [s1 EXCEPT !.waveState =
                          [s1.waveState EXCEPT
                              !.spawnQueue = Tail(s1.waveState.spawnQueue),
                              !.spawnCooldown = CalculatedSpawnCooldown(s.currentWave)]]
             ELSE [s EXCEPT !.waveState.spawnCooldown = newSpawnCooldown]

handleSpawning(s, d, route) ==
    LET spawnQueue == s.waveState.spawnQueue
        newSpawnCooldown == s.waveState.spawnCooldown - d
        timeBetweenWaves == IF DifficultyScaling.time_between_waves # 0
                            THEN DifficultyScaling.time_between_waves
                            ELSE DefaultTimeBetweenWaves
    IN  IF spawnQueue = << >>
        THEN IF s.enemies = << >>
             THEN [s EXCEPT !.waveState = [s.waveState EXCEPT
                                              !.waveInProgress = FALSE,
                                              !.timeToNextWave = timeBetweenWaves]]
             ELSE s
        ELSE IF newSpawnCooldown <= 0
             THEN LET s1 == spawnEnemy(s, Head(spawnQueue), route)
                  IN  [s1 EXCEPT !.waveState =
                          [s1.waveState EXCEPT
                              !.spawnQueue = Tail(s1.waveState.spawnQueue),
                              !.spawnCooldown = CalculatedSpawnCooldown(s.currentWave)]]
             ELSE [s EXCEPT !.waveState.spawnCooldown = newSpawnCooldown]

\* WaveManager.update; spawnQueue and route are the outcomes of Math.random()
WaveManagerUpdate(s, d, spawnQueue, route) ==
    IF s.waveState.waveInProgress THEN handleSpawning(s, d, route)
    ELSE handleWaveCountdown(s, d, spawnQueue)

\* ------------------------------------------------------------------- state
VARIABLES appStatus, gold, health, currentWave, waveState,
          enemies, towers, projectiles, auras,
          nextId,     \* the next fresh id
          pc,         \* position of update(): the index in UpdateOrder of the next manager
          dt,         \* the dt of the tick in progress
          ran,        \* the managers that have run in the current tick, in order
          clock,      \* the seconds simulated so far
          call,       \* the store action last called on its own, with its arguments
          log,        \* what the handlers did (see the store)
          level,      \* grid, paths and managers of the store (null before a session)
          finder,     \* the level generation services: grid, start, end, returned route
          legacy      \* the state of the App component: money, towers, occupied tiles

vars == <<appStatus, gold, health, currentWave, waveState, enemies, towers, projectiles,
          auras, nextId, pc, dt, ran, clock, call, log, level, finder, legacy>>

EmptyLog == [killed |-> {}, rekilled |-> {}, leaked |-> {}, releaked |-> {},
             dmgPairs |-> {}, dblPairs |-> {}, expended |-> {}, auraDone |-> {}]

NoCall == [name |-> "none"]

initialWaveState == [waveInProgress |-> FALSE, timeToNextWave |-> InitialCountdown,
                     spawnQueue |-> << >>, spawnCooldown |-> 0]

\* the grid of the session: the route runs on row 0, row 1 is buildable
SessionGrid == [width |-> 4, height |-> 2, path |-> {[x |-> c, y |-> 0] : c \in 0..3}]

NoLevel == [grid |-> [width |-> 0, height |-> 0, path |-> {}], paths |-> << >>,
            managers |-> FALSE]

SessionLevel == [grid |-> SessionGrid, paths |-> Paths, managers |-> TRUE]

\* the services and the App component before anything has called them
IdleFinder == [width |-> 0, height |-> 0, walls |-> {}, start |-> [x |-> 0, y |-> 0],
               end |-> [x |-> 0, y |-> 0], path |-> << >>, expanded |-> 0,
               called |-> "none", style |-> "", routes |-> << >>, failed |-> 0,
               tiles |-> << >>, result |-> "none"]

NoTower == [id |-> -1, before |-> 0]

IdleLegacy == [money |-> 0, towers |-> << >>, occupied |-> {}, selectedTower |-> -1,
               nextId |-> 0, placed |-> NoTower,
               last |-> [op |-> "none", cost |-> 0, immediate |-> FALSE]]

\* the store as one record, and its write-back
Store ==
    [gold |-> gold, health |-> health, currentWave |-> currentWave, waveState |-> waveState,
     enemies |-> enemies, towers |-> towers, projectiles |-> projectiles, auras |-> auras,
     nextId |-> nextId,
     killed |-> log.killed, rekilled |-> log.rekilled, leaked |-> log.leaked,
     releaked |-> log.releaked, dmgPairs |-> log.dmgPairs, dblPairs |-> log.dblPairs,
     expended |-> log.expended, auraDone |-> log.auraDone]

Commit(s) ==
    /\ gold' = s.gold
    /\ health' = s.health
    /\ currentWave' = s.currentWave
    /\ waveState' = s.waveState
    /\ enemies' = s.enemies
    /\ towers' = s.towers
    /\ projectiles' = s.projectiles
    /\ auras' = s.auras
    /\ nextId' = s.nextId
    /\ log' = [killed |-> s.killed, rekilled |-> s.rekilled, leaked |-> s.leaked,
               releaked |-> s.releaked, dmgPairs |-> s.dmgPairs, dblPairs |-> s.dblPairs,
               expended |-> s.expended, auraDone |-> s.auraDone]
    /\ UNCHANGED <<level, finder, legacy>>

\* initialState of the store
Init ==
    /\ appStatus = "main-menu"
    /\ gold = InitialGold
    /\ health = InitialHealth
    /\ currentWave = 0
    /\ waveState = initialWaveState
    /\ enemies = << >>
    /\ towers = << >>
    /\ projectiles = << >>
    /\ auras = << >>
    /\ nextId = 1
    /\ pc = 1
    /\ dt = 0
    /\ ran = << >>
    /\ clock = 0
    /\ call = NoCall
    /\ log = EmptyLog
    /\ level = NoLevel
    /\ finder = IdleFinder
    /\ legacy = IdleLegacy

\* initializeGameSession with a level the generator produced
InitializeGameSession ==
    /\ appStatus = "main-menu"
    /\ pc = 1
    /\ appStatus' = "in-game"
    /\ gold' = InitialGold
    /\ health' = InitialHealth
    /\ currentWave' = 0
    /\ waveState' = initialWaveState
    /\ enemies' = << >>
    /\ towers' = << >>
    /\ projectiles' = << >>
    /\ auras' = << >>
    /\ level' = SessionLevel
    /\ UNCHANGED <<nextId, pc, dt, ran, clock, call, log, finder, legacy>>

\* GameCanvas.handleClick with a tower selected for build, then placeTower.
\* The player builds before the first tick of the session.
PlaceTower(type, tile) ==
    /\ appStatus = "in-game"
    /\ pc = 1
    /\ ran = << >>
    /\ Len(towers) < MaxTowers
    /\ gold >= TowerTypes[type].cost
    /\ tile \in BuildTiles
    /\ Commit(placeTower(Store, type, tile))
    /\ UNCHANGED <<appStatus, pc, dt, ran, clock, call>>

\* update(dt) calling the enemy mover before the status-effect resolver
UpdateOrder_swapped == <<"tower", "projectile", "aura", "enemy", "status", "wave">>

\* update(dt): the order in which it calls the managers
UpdateOrder == <<"tower", "projectile", "aura", "status", "enemy", "wave">>

NextPc == IF pc = Len(UpdateOrder) THEN 1 ELSE pc + 1

\* update(dt) reaches the call of manager name
Runs(name) ==
    /\ appStatus = "in-game"
    /\ UpdateOrder[pc] = name
    /\ pc' = NextPc
    /\ ran' = IF pc = 1 THEN <<name>> ELSE Append(ran, name)
    /\ UNCHANGED appStatus

\* update(dt) is called: the first manager runs
TowerTick(d) ==
    /\ pc = 1
    /\ clock + d <= MaxTime
    /\ Runs("tower")
    /\ dt' = d
    /\ clock' = clock + d
    /\ UNCHANGED call
    /\ Commit(TowerManagerUpdate(Store, d))

ProjectileTick ==
    /\ pc # 1
    /\ Runs("projectile")
    /\ Commit(ProjectileManagerUpdate(Store, dt))
    /\ UNCHANGED <<dt, clock, call>>

AuraTick ==
    /\ pc # 1
    /\ Runs("aura")
    /\ Commit(AuraManagerUpdate(Store, dt))
    /\ UNCHANGED <<dt, clock, call>>

StatusTick ==
    /\ pc # 1
    /\ Runs("status")
    /\ Commit(StatusEffectManagerUpdate(Store, dt))
    /\ UNCHANGED <<dt, clock, call>>

EnemyTick ==
    /\ pc # 1
    /\ Runs("enemy")
    /\ Commit(EnemyManagerUpdate(Store, dt))
    /\ UNCHANGED <<dt, clock, call>>

WaveTick(spawnQueue, route) ==
    /\ pc # 1
    /\ Runs("wave")
    /\ Commit(WaveManagerUpdate(Store, dt, spawnQueue, route))
    /\ UNCHANGED <<dt, clock, call>>

Next ==
    \/ InitializeGameSession
    \/ \E type \in TowerTypeIds, tile \in BuildTiles : PlaceTower(type, tile)
    \/ \E d \in 1..MaxDt : TowerTick(d)
    \/ ProjectileTick
    \/ AuraTick
    \/ StatusTick
    \/ EnemyTick
    \/ \E spawnQueue \in SpawnQueues(currentWave + 1), route \in 1..Len(Paths) :
          WaveTick(spawnQueue, route)

Spec == Init /\ [][Next]_vars

\* ------------------------------------------------- the commands of the player
\* The store actions the interface calls, each as one call: initializeGameSession,
\* setAppStatus, the click on a tile of the canvas, upgradeTower and update.
MaxCommandTime == 11  \* seconds simulated while the commands are exercised

\* the tiles the player clicks: buildable, on the route, outside the grid
ClickTiles == {[x |-> 1, y |-> 1], [x |-> 2, y |-> 1], [x |-> 1, y |-> 0], [x |-> 9, y |-> 9]}

\* what the player has selected for build: tower types, an unknown type, nothing
Selections == {"archer", "tesla", "frost", "ghost", "none"}

UpgradeIds == {"a1", "b1", "zz"}

GenerationResults == {"ok", "null", "noPaths", "noConfigs"}

\* initializeGameSession returning before its set: no configs, no result, no paths
GenerationFailed_nullOnly(result) == result \in {"noConfigs", "null"}

GenerationFailed(result) == result \in {"noConfigs", "null", "noPaths"}

\* update(dt) without its test of appStatus
update_unguarded(s, status, d, spawnQueue, route) ==
    WaveManagerUpdate(
        EnemyManagerUpdate(
            StatusEffectManagerUpdate(
                AuraManagerUpdate(
                    ProjectileManagerUpdate(TowerManagerUpdate(s, d), d), d), d), d),
        d, spawnQueue, route)

\* store action update(dt) as one call
update(s, status, d, spawnQueue, route) ==
    IF status # "in-game" THEN s
    ELSE WaveManagerUpdate(
            EnemyManagerUpdate(
                StatusEffectManagerUpdate(
                    AuraManagerUpdate(
                        ProjectileManagerUpdate(TowerManagerUpdate(s, d), d), d), d), d),
            d, spawnQueue, route)

\* the level select screen starts a session; the generator returns result
StartSession(result) ==
    /\ result = "ok" => appStatus = "main-menu"
    /\ call' = [name |-> "initializeGameSession", result |-> result]
    /\ IF GenerationFailed(result)
       THEN UNCHANGED <<appStatus, gold, health, currentWave, waveState, enemies, towers,
                        projectiles, auras, level>>
       ELSE /\ appStatus' = "in-game"
            /\ gold' = InitialGold
            /\ health' = InitialHealth
            /\ currentWave' = 0
            /\ waveState' = initialWaveState
            /\ enemies' = << >>
            /\ towers' = << >>
            /\ projectiles' = << >>
            /\ auras' = << >>
            /\ level' = [SessionLevel EXCEPT
                            !.paths = IF result = "noPaths" THEN << >> ELSE Paths]
    /\ UNCHANGED <<nextId, pc, dt, ran, clock, log, finder, legacy>>

\* store action setAppStatus: the session is paused and resumed
SetAppStatus(status) ==
    /\ level.managers
    /\ appStatus' = status
    /\ call' = [name |-> "setAppStatus", status |-> status]
    /\ UNCHANGED <<gold, health, currentWave, waveState, enemies, towers, projectiles,
                   auras, nextId, pc, dt, ran, clock, log, level, finder, legacy>>

ClickTile(selectedTowerForBuild, tile) ==
    /\ Len(towers) < MaxTowers
    /\ call' = [name |-> "handleClick", selected |-> selectedTowerForBuild, tile |-> tile]
    /\ Commit(handleClick(Store, level.grid, selectedTowerForBuild, tile))
    /\ UNCHANGED <<appStatus, pc, dt, ran, clock>>

UpgradeCall(towerId, upgradeId) ==
    /\ call' = [name |-> "upgradeTower", towerId |-> towerId, upgradeId |-> upgradeId,
                duplicate |-> /\ Has(towers, towerId)
                              /\ Contains(Get(towers, towerId).appliedUpgradeIds, upgradeId)]
    /\ Commit(upgradeTower(Store, towerId, upgradeId))
    /\ UNCHANGED <<appStatus, pc, dt, ran, clock>>

UpdateCall(d, spawnQueue, route) ==
    /\ appStatus = "in-game" => clock + d <= MaxCommandTime
    /\ call' = [name |-> "update", d |-> d]
    /\ clock' = IF appStatus = "in-game" THEN clock + d ELSE clock
    /\ Commit(update(Store, appStatus, d, spawnQueue, route))
    /\ UNCHANGED <<appStatus, pc, dt, ran>>

NextCommands ==
    \/ \E result \in GenerationResults : StartSession(result)
    \/ \E status \in {"in-game", "paused"} : SetAppStatus(status)
    \/ \E selected \in Selections, tile \in ClickTiles : ClickTile(selected, tile)
    \/ \E towerId \in Ids(towers) \cup {0}, upgradeId \in UpgradeIds :
          UpgradeCall(towerId, upgradeId)
    \/ \E d \in 1..MaxDt :
          \E spawnQueue \in SpawnQueues(currentWave + 1), route \in 1..Len(Paths) :
             UpdateCall(d, spawnQueue, route)

SpecCommands == Init /\ [][NextCommands]_vars

\* ------------------------------------------- the effect handlers on their own
\* applyStatusEffect and EnemyManager.update called on a session that holds one
\* enemy carrying any list of active effects of distinct kinds.
MaxEffects == 1     \* effects the enemy carries at the start

InputEffects ==
    {Eff("slow", 60, 2), Eff("slow", 150, 1), Eff("stun", One, 2),
     Eff("armor_break", 3, 1)}

ActiveInputs ==
    {[id |-> e.id, potency |-> e.potency, duration |-> e.duration, timeRemaining |-> r,
      sourceTowerId |-> 1, age |-> 0, due |-> r, refreshed |-> FALSE] :
        e \in InputEffects, r \in 1..2}

EffectLists(type) ==
    {l \in UNION {[1..n -> ActiveInputs] : n \in 0..MaxEffects} :
        /\ \A i \in 1..Len(l) : /\ l[i].timeRemaining <= l[i].duration
                                /\ l[i].id \notin EnemyTypes[type].immunities
        /\ \A i, j \in 1..Len(l) : i # j => l[i].id # l[j].id}

InitEffects ==
    /\ appStatus = "in-game"
    /\ gold = InitialGold
    /\ health = InitialHealth
    /\ currentWave = 0
    /\ waveState = initialWaveState
    /\ \E type \in {"grunt", "crawler"} : \E l \in EffectLists(type) :
          enemies = <<[id |-> 1, type |-> type, route |-> 1, position |-> Paths[1][1],
                       currentHp |-> EnemyTypes[type].hp, pathIndex |-> 0, effects |-> l,
                       currentSpeed |-> EnemyTypes[type].speed,
                       currentArmor |-> EnemyTypes[type].armor]>>
    /\ towers = << >>
    /\ projectiles = << >>
    /\ auras = << >>
    /\ nextId = 2
    /\ pc = 1
    /\ dt = 0
    /\ ran = << >>
    /\ clock = 0
    /\ call = NoCall
    /\ log = EmptyLog
    /\ level = SessionLevel
    /\ finder = IdleFinder
    /\ legacy = IdleLegacy

ApplyCall(targetId, effect, sourceTowerId) ==
    /\ enemies # << >>
    /\ call' = [name |-> "applyStatusEffect", targetId |-> targetId, effect |-> effect]
    /\ Commit(applyStatusEffect(Store, targetId, effect, sourceTowerId))
    /\ UNCHANGED <<appStatus, pc, dt, ran, clock>>

MoverCall(d) ==
    /\ enemies # << >>
    /\ call' = [name |-> "enemyUpdate"]
    /\ Commit(EnemyManagerUpdate(Store, d))
    /\ UNCHANGED <<appStatus, pc, dt, ran, clock>>

NextEffects ==
    \/ \E effect \in InputEffects : ApplyCall(1, effect, 2)
    \/ \E d \in 1..MaxDt : MoverCall(d)

SpecEffects == InitEffects /\ [][NextEffects]_vars

\* ------------------------------------------------ the App component (towers)
\* The App component keeps its own money, towers and grid; the player places
\* towers by clicking the canvas and upgrades or sells the selected tower.
LegacyInitialMoney == 500

SellRate == 75      \* getSellValue refunds 0.75 of the value, in hundredths

\* TOWER_TYPES: the cost of a tower and the costs of its upgrades
LegacyTowerTypes ==
    [ gatling |-> [cost |-> 100, upgrades |-> <<75, 150, 300>>],
      rocket  |-> [cost |-> 250, upgrades |-> <<200, 400, 800>>] ]

\* the cells of the grid and the ones on the path
LegacyCells == {[x |-> c, y |-> 0] : c \in 0..2}

LegacyPath == {[x |-> 0, y |-> 0]}

\* Tower.getUpgradeCost; -1 stands for Infinity
getUpgradeCost(tower) ==
    LET typeData == LegacyTowerTypes[tower.type]
    IN  IF tower.level < Len(typeData.upgrades) THEN typeData.upgrades[tower.level + 1]
        ELSE -1

\* the sum of the costs of the first level upgrades
RECURSIVE UpgradeCosts(_, _)
UpgradeCosts(upgrades, n) ==
    IF n = 0 THEN 0 ELSE upgrades[n] + UpgradeCosts(upgrades, n - 1)

\* getSellValue returning the whole value
getSellValue_full(tower) ==
    LegacyTowerTypes[tower.type].cost
        + UpgradeCosts(LegacyTowerTypes[tower.type].upgrades, tower.level)

\* Tower.getSellValue
getSellValue(tower) ==
    ((LegacyTowerTypes[tower.type].cost
        + UpgradeCosts(LegacyTowerTypes[tower.type].upgrades, tower.level)) * SellRate)
      \div 100

\* handleCanvasClick on a tile, near the centre of the tile or not, with
\* selectedTowerType ("none" for null)
handleCanvasClick(L, tile, near, selectedTowerType) ==
    LET clicked == {i \in 1..Len(L.towers) : near /\ L.towers[i].tile = tile}
    IN  IF clicked # {}
        THEN [L EXCEPT !.selectedTower = L.towers[CHOOSE i \in clicked : TRUE].id]
        ELSE IF selectedTowerType # "none"
             THEN IF tile \in LegacyCells /\ tile \notin LegacyPath /\ tile \notin L.occupied
                  THEN LET cost == LegacyTowerTypes[selectedTowerType].cost
                       IN  IF L.money >= cost
                           THEN [L EXCEPT
                                   !.money = L.money - cost,
                                   !.towers = Append(L.towers,
                                       [id |-> L.nextId, tile |-> tile,
                                        type |-> selectedTowerType, level |-> 0]),
                                   !.nextId = L.nextId + 1,
                                   !.occupied = L.occupied \cup {tile},
                                   !.placed = [id |-> L.nextId, before |-> L.money]]
                           ELSE L
                  ELSE L
             ELSE [L EXCEPT !.selectedTower = -1]

\* handleUpgradeTower
handleUpgradeTower(L) ==
    IF L.selectedTower = -1 THEN L
    ELSE LET i == CHOOSE i \in 1..Len(L.towers) : L.towers[i].id = L.selectedTower
             cost == getUpgradeCost(L.towers[i])
         IN  IF cost # -1 /\ L.money >= cost
             THEN [L EXCEPT !.money = L.money - cost,
                            !.towers[i].level = L.towers[i].level + 1,
                            !.placed = NoTower]
             ELSE L

\* handleSellTower
handleSellTower(L) ==
    IF L.selectedTower = -1 THEN L
    ELSE LET i == CHOOSE i \in 1..Len(L.towers) : L.towers[i].id = L.selectedTower
             tower == L.towers[i]
         IN  [L EXCEPT !.money = L.money + getSellValue(tower),
                       !.occupied = L.occupied \ {tower.tile},
                       !.towers = SelectSeq(L.towers, LAMBDA x : x.id # tower.id),
                       !.selectedTower = -1,
                       !.placed = NoTower,
                       !.last = [op |-> "sell", cost |-> LegacyTowerTypes[tower.type].cost,
                                 immediate |-> L.placed.id = tower.id]]

InitLegacy ==
    /\ appStatus = "main-menu"
    /\ gold = InitialGold
    /\ health = InitialHealth
    /\ currentWave = 0
    /\ waveState = initialWaveState
    /\ enemies = << >>
    /\ towers = << >>
    /\ projectiles = << >>
    /\ auras = << >>
    /\ nextId = 1
    /\ pc = 1
    /\ dt = 0
    /\ ran = << >>
    /\ clock = 0
    /\ call = NoCall
    /\ log = EmptyLog
    /\ level = NoLevel
    /\ finder = IdleFinder
    /\ legacy = [IdleLegacy EXCEPT !.money = LegacyInitialMoney]

LegacyCall(name, L) ==
    /\ call' = [name |-> name]
    /\ legacy' = L
    /\ UNCHANGED <<appStatus, gold, health, currentWave, waveState, enemies, towers,
                   projectiles, auras, nextId, pc, dt, ran, clock, log, level, finder>>

CanvasClick(tile, near, selectedTowerType) ==
    LegacyCall("handleCanvasClick", handleCanvasClick(legacy, tile, near, selectedTowerType))

UpgradeClick == LegacyCall("handleUpgradeTower", handleUpgradeTower(legacy))

SellClick == LegacyCall("handleSellTower", handleSellTower(legacy))

NextLegacy ==
    \/ \E tile \in LegacyCells \cup {[x |-> 5, y |-> 5]}, near \in BOOLEAN,
          selectedTowerType \in {"gatling", "rocket", "none"} :
             CanvasClick(tile, near, selectedTowerType)
    \/ UpgradeClick
    \/ SellClick

SpecLegacy == InitLegacy /\ [][NextLegacy]_vars

\* ------------------------------------------------- the level generation services
(* The pathfinder grid (number[][], 0 walkable and 1 obstacle) is a record of  *)
(* its width, its height and the set of its obstacle cells.  A PathNode's      *)
(* parent is a sequence: empty for null, else the one position of the parent,  *)
(* which is always a node of the closed list.                                  *)
GridWidth == 5      \* columns of the grids handed to findPath
GridHeight == 2     \* rows of the grids handed to findPath
MaxWalls == 1       \* obstacle cells of the grids handed to findPath

Pos(x, y) == [x |-> x, y |-> y]

CellsOf(width, height) == {Pos(x, y) : x \in 0..(width - 1), y \in 0..(height - 1)}

GridCell(grid, x, y) == IF Pos(x, y) \in grid.walls THEN 1 ELSE 0

PathNode(x, y) == [x |-> x, y |-> y, gCost |-> 0, hCost |-> 0, parent |-> << >>]

fCost(n) == n.gCost + n.hCost

equals(a, b) == a.x = b.x /\ a.y = b.y

getDistance(nodeA, nodeB) == Abs(nodeA.x - nodeB.x) + Abs(nodeA.y - nodeB.y)

Directions_noLeft == << Pos(0, -1), Pos(0, 1), Pos(1, 0) >>

Directions == << Pos(0, -1), Pos(0, 1), Pos(-1, 0), Pos(1, 0) >>

getNeighbors(node, width, height) ==
    LET moved == [i \in 1..Len(Directions) |->
                     PathNode(node.x + Directions[i].x, node.y + Directions[i].y)]
        inside(n) == n.x >= 0 /\ n.x < width /\ n.y >= 0 /\ n.y < height
    IN SelectSeq(moved, inside)

InList(list, node) == \E i \in DOMAIN list : equals(list[i], node)

\* the loop that picks the open node of lowest fCost, then of lowest hCost
RECURSIVE LowestCost(_, _, _)
LowestCost(openList, i, current) ==
    IF i > Len(openList) THEN current
    ELSE LowestCost(openList, i + 1,
                    IF \/ fCost(openList[i]) < fCost(openList[current])
                       \/ /\ fCost(openList[i]) = fCost(openList[current])
                          /\ openList[i].hCost < openList[current].hCost
                    THEN i ELSE current)

Skipped(grid, closedList, neighbor) ==
    GridCell(grid, neighbor.x, neighbor.y) = 1 \/ InList(closedList, neighbor)

\* the body of the loop over the neighbors; the open list after it.  The
\* costs and the parent are written to the node getNeighbors has just made,
\* so a node already in the open list keeps what it had.
VisitNeighbor(grid, openList, closedList, currentNode, neighbor, endNode) ==
    IF Skipped(grid, closedList, neighbor) THEN openList
    ELSE LET newGCost == currentNode.gCost + getDistance(currentNode, neighbor)
             isInOpenList == InList(openList, neighbor)
             visited == [neighbor EXCEPT !.gCost = newGCost,
                                         !.hCost = getDistance(neighbor, endNode),
                                         !.parent = << Pos(currentNode.x, currentNode.y) >>]
         IN IF (newGCost < neighbor.gCost \/ ~isInOpenList) /\ ~isInOpenList
            THEN Append(openList, visited)
            ELSE openList

RECURSIVE VisitNeighbors(_, _, _, _, _, _)
VisitNeighbors(grid, openList, closedList, currentNode, neighbors, endNode) ==
    IF neighbors = << >> THEN openList
    ELSE VisitNeighbors(grid,
                        VisitNeighbor(grid, openList, closedList, currentNode,
                                      Head(neighbors), endNode),
                        closedList, currentNode, Tail(neighbors), endNode)

RECURSIVE reconstructPath(_, _)
reconstructPath(closedList, endNode) ==
    IF endNode.parent = << >> THEN << Pos(endNode.x, endNode.y) >>
    ELSE LET i == CHOOSE j \in DOMAIN closedList : equals(closedList[j], endNode.parent[1])
         IN Append(reconstructPath(closedList, closedList[i]), Pos(endNode.x, endNode.y))

\* the while loop of findPath; expanded counts its iterations
RECURSIVE Search(_, _, _, _)
Search(grid, openList, closedList, endNode) ==
    IF Len(openList) = 0 THEN [path |-> << >>, expanded |-> Len(closedList)]
    ELSE LET at == LowestCost(openList, 2, 1)
             currentNode == openList[at]
             opened == [i \in 1..(Len(openList) - 1) |->
                           IF i < at THEN openList[i] ELSE openList[i + 1]]
             closed == Append(closedList, currentNode)
         IN IF equals(currentNode, endNode)
            THEN [path |-> reconstructPath(closed, currentNode), expanded |-> Len(closed)]
            ELSE Search(grid,
                        VisitNeighbors(grid, opened, closed, currentNode,
                                       getNeighbors(currentNode, grid.width, grid.height),
                                       endNode),
                        closed, endNode)

findPath(grid, start, end) ==
    Search(grid, << PathNode(start.x, start.y) >>, << >>, PathNode(end.x, end.y))

\* ---- LevelGenerator and Grid
(* The level styles are inputs (level_styles.json is not part of the sources). *)
(* paths_config and features are Record<string, ...>: sequences in key order.  *)
(* "spiral" is a route type the switch of generatePaths does not know.         *)
LevelParams == [grid_width |-> 20, grid_height |-> 12,
                paths_config |-> << [type |-> "elbow", count |-> 1] >>, features |-> << >>]

LevelStyles ==
    [plains |-> LevelParams,
     narrow |-> [grid_width |-> 4, grid_height |-> 9,
                 paths_config |-> << [type |-> "elbow", count |-> 2] >>, features |-> << >>],
     rocky  |-> [grid_width |-> 14, grid_height |-> 8,
                 paths_config |-> << [type |-> "elbow", count |-> 2] >>,
                 features |-> << [name |-> "mountains", min |-> 1, max |-> 2] >>],
     bare   |-> [grid_width |-> 14, grid_height |-> 8,
                 paths_config |-> << [type |-> "spiral", count |-> 1] >>, features |-> << >>],
     empty  |-> [grid_width |-> 14, grid_height |-> 8,
                 paths_config |-> << >>, features |-> << >>],
     meadow |-> [grid_width |-> 4, grid_height |-> 12,
                 paths_config |-> << [type |-> "wandering", count |-> 1] >>,
                 features |-> << >>],
     gorge  |-> [grid_width |-> 4, grid_height |-> 9,
                 paths_config |-> << [type |-> "wandering", count |-> 1] >>,
                 features |-> << >>]]

StyleNames == {"plains", "narrow", "rocky", "bare", "empty", "meadow", "gorge", "ghost"}

margin == 3

Grid(width, height) ==
    [width |-> width, height |-> height,
     tiles |-> [c \in CellsOf(width, height) |-> "BUILDABLE"]]

isValidCoord(grid, x, y) == x >= 0 /\ x < grid.width /\ y >= 0 /\ y < grid.height

setTileType(grid, x, y, type) == [grid EXCEPT !.tiles[Pos(x, y)] = type]

\* Math.floor(Math.random() * n); for n <= 0 the product lies in (n, 0]
RandomBelow(n) == IF n > 0 THEN 0..(n - 1) ELSE n..0

RECURSIVE carveStep(_, _, _, _, _, _, _, _, _, _, _)
carveStep(grid, x, y, x2, y2, dx, dy, sx, sy, err, type) ==
    LET carved == IF isValidCoord(grid, x, y) THEN setTileType(grid, x, y, type) ELSE grid
        e2 == 2 * err
        errX == IF e2 > -dy THEN err - dy ELSE err
        nextX == IF e2 > -dy THEN x + sx ELSE x
        errY == IF e2 < dx THEN errX + dx ELSE errX
        nextY == IF e2 < dx THEN y + sy ELSE y
    IN IF x = x2 /\ y = y2 THEN carved
       ELSE carveStep(carved, nextX, nextY, x2, y2, dx, dy, sx, sy, errY, type)

carveLine_endsOnly(grid, x1, y1, x2, y2, type) ==
    setTileType(setTileType(grid, x1, y1, type), x2, y2, type)

carveLine(grid, x1, y1, x2, y2, type) ==
    LET dx == Abs(x2 - x1)
        dy == Abs(y2 - y1)
        sx == IF x1 < x2 THEN 1 ELSE -1
        sy == IF y1 < y2 THEN 1 ELSE -1
    IN carveStep(grid, x1, y1, x2, y2, dx, dy, sx, sy, dx - dy, type)

isWalkable(tileType) == tileType \in {"PATH", "spawn", "end"}

createPathfinderGrid(grid) ==
    [width |-> grid.width, height |-> grid.height,
     walls |-> {c \in CellsOf(grid.width, grid.height) : ~isWalkable(grid.tiles[c])}]

\* the three random draws are the arguments; the result carries the grid
\* handed to the pathfinder and what the pathfinder answered
generateElbowPath(grid, startY, endY, elbowX) ==
    LET start == Pos(0, startY)
        end == Pos(grid.width - 1, endY)
        line1 == carveLine(grid, start.x, start.y, elbowX, start.y, "PATH")
        line2 == carveLine(line1, elbowX, start.y, elbowX, end.y, "PATH")
        line3 == carveLine(line2, elbowX, end.y, end.x, end.y, "PATH")
        marked == setTileType(setTileType(line3, start.x, start.y, "spawn"),
                              end.x, end.y, "end")
        pathfinderGrid == createPathfinderGrid(marked)
        found == findPath(pathfinderGrid, start, end)
    IN [grid |-> pathfinderGrid, start |-> start, end |-> end,
        tiles |-> found.path, expanded |-> found.expanded, carved |-> marked,
        thrown |-> ~isValidCoord(grid, start.x, start.y) \/ ~isValidCoord(grid, end.x, end.y)]

wanderingMargin == 5

\* the drunken walk of generateWanderingPath: the positions the loop carves,
\* one per turn, and last the position it ends on.  rolls holds what
\* Math.random() gives turn by turn: "forward" below 0.6, "up" below 0.8,
\* "down" otherwise
RECURSIVE wanderingWalk(_, _, _, _, _)
wanderingWalk(width, height, currentX, currentY, rolls) ==
    IF ~(currentX < width - 1) THEN << Pos(currentX, currentY) >>
    ELSE << Pos(currentX, currentY) >> \o
         (IF Head(rolls) = "forward"
          THEN wanderingWalk(width, height, currentX + 1, currentY, Tail(rolls))
          ELSE IF Head(rolls) = "up"
          THEN wanderingWalk(width, height, currentX,
                             Max(wanderingMargin, currentY - 1), Tail(rolls))
          ELSE wanderingWalk(width, height, currentX,
                             Min(height - 1 - wanderingMargin, currentY + 1), Tail(rolls)))

\* the grid with the given positions carved, those outside the grid skipped
carveTiles(grid, positions) ==
    [grid EXCEPT !.tiles = [c \in DOMAIN grid.tiles |->
                               IF c \in positions THEN "PATH" ELSE grid.tiles[c]]]

\* the end of generateWanderingPath: the endpoints are marked on the carved
\* grid and the pathfinder is asked for the route; the result has the shape
\* of the result of generateElbowPath
confirmWanderingPath(grid, start, end, line) ==
    LET marked == setTileType(setTileType(line, start.x, start.y, "spawn"),
                              end.x, end.y, "end")
        found == findPath(createPathfinderGrid(marked), start, end)
    IN [grid |-> createPathfinderGrid(marked), start |-> start, end |-> end,
        tiles |-> found.path, expanded |-> found.expanded, carved |-> marked,
        thrown |-> ~isValidCoord(grid, start.x, start.y) \/ ~isValidCoord(grid, end.x, end.y)]

\* the walk is completed to the edge from the position it ended on, whose
\* row is the row of the end tile
completeWanderingPath(grid, walk) ==
    confirmWanderingPath(grid, walk[1], Pos(grid.width - 1, walk[Len(walk)].y),
                         carveLine(carveTiles(grid, {walk[i] : i \in 1..(Len(walk) - 1)}),
                                   walk[Len(walk)].x, walk[Len(walk)].y,
                                   grid.width - 1, walk[Len(walk)].y, "PATH"))

\* the draw of the entry row and the rolls of the walk are the arguments
generateWanderingPath(grid, startY, rolls) ==
    completeWanderingPath(grid, wanderingWalk(grid.width, grid.height, 0, startY, rolls))

\* the route types of a style in the order generatePaths walks them
RECURSIVE RouteTypes(_)
RouteTypes(pathConfigs) ==
    IF pathConfigs = << >> THEN << >>
    ELSE [i \in 1..Head(pathConfigs).count |-> Head(pathConfigs).type]
             \o RouteTypes(Tail(pathConfigs))

\* the routes of a style that generatePaths has a generator for
DrawnRoutes(params) ==
    SelectSeq(RouteTypes(params.paths_config), LAMBDA t : t \in {"elbow", "wandering"})

\* the loops of generatePaths: draws holds the random draws of the routes
\* still to make, last what the latest call of the pathfinder was given and
\* answered.  A route that comes back null is not pushed.
\* what generatePaths does with the route a generator made: a route that
\* came back with tiles is pushed, one that came back null is counted
pushRoute(acc, made) ==
    [grid |-> made.carved,
     finalPaths |-> IF made.tiles # << >> THEN Append(acc.finalPaths, made.tiles)
                    ELSE acc.finalPaths,
     failed |-> IF made.tiles # << >> THEN acc.failed ELSE acc.failed + 1,
     last |-> << made >>, thrown |-> made.thrown]

RECURSIVE generateRoutes(_, _, _)
generateRoutes(acc, types, draws) ==
    IF types = << >> \/ acc.thrown THEN acc
    ELSE IF Head(types) = "elbow"
    THEN generateRoutes(pushRoute(acc, generateElbowPath(acc.grid, Head(draws).startY,
                                                         Head(draws).endY,
                                                         Head(draws).elbowX)),
                        Tail(types), Tail(draws))
    ELSE IF Head(types) = "wandering"
    THEN generateRoutes(pushRoute(acc, generateWanderingPath(acc.grid, Head(draws).startY,
                                                             Head(draws).rolls)),
                        Tail(types), Tail(draws))
    ELSE generateRoutes(acc, Tail(types), draws)

generatePaths(grid, params, draws) ==
    generateRoutes([grid |-> grid, finalPaths |-> << >>, failed |-> 0, last |-> << >>,
                    thrown |-> FALSE],
                   RouteTypes(params.paths_config), draws)

Attempts == 10

\* featureName.slice(0, -1).toUpperCase() for the feature names of the styles
FeatureTile(featureName) == IF featureName = "mountains" THEN "MOUNTAIN" ELSE "FEATURE"

\* the attempts of one placement: tries holds the tiles Math.random() picks
RECURSIVE placeOne_anyTile(_, _, _, _)
placeOne_anyTile(grid, tileType, tries, attempt) ==
    IF attempt >= Attempts THEN grid
    ELSE LET at == tries[attempt + 1]
         IN IF isValidCoord(grid, at.x, at.y)
            THEN setTileType(grid, at.x, at.y, tileType)
            ELSE placeOne_anyTile(grid, tileType, tries, attempt + 1)

RECURSIVE placeOne(_, _, _, _)
placeOne(grid, tileType, tries, attempt) ==
    IF attempt >= Attempts THEN grid
    ELSE LET at == tries[attempt + 1]
         IN IF isValidCoord(grid, at.x, at.y) /\ grid.tiles[at] = "BUILDABLE"
            THEN setTileType(grid, at.x, at.y, tileType)
            ELSE placeOne(grid, tileType, tries, attempt + 1)

RECURSIVE placeCount(_, _, _, _)
placeCount(grid, tileType, placements, i) ==
    IF i > Len(placements) THEN grid
    ELSE placeCount(placeOne(grid, tileType, placements[i], 0), tileType, placements, i + 1)

\* scatter holds, per feature, the tiles drawn for each of its placements
\* (their number is the count that was drawn)
RECURSIVE placeFeatures(_, _, _)
placeFeatures(grid, features, scatter) ==
    IF features = << >> THEN grid
    ELSE placeFeatures(placeCount(grid, FeatureTile(Head(features).name), Head(scatter), 1),
                       Tail(features), Tail(scatter))

\* generateLevel; the result is "null", "ok" or "thrown", routes are the
\* tile routes of the result and tiles the tile types of its grid
generateLevel(styleName, draws, scatter) ==
    IF styleName \notin DOMAIN LevelStyles
    THEN [IdleFinder EXCEPT !.called = "generateLevel", !.style = styleName,
                            !.result = "null"]
    ELSE LET params == LevelStyles[styleName]
             grid == Grid(params.grid_width, params.grid_height)
             made == generatePaths(grid, params, draws)
             tilePaths == made.finalPaths
             last == IF made.last = << >>
                     THEN [grid |-> createPathfinderGrid(grid), start |-> IdleFinder.start,
                           end |-> IdleFinder.end, tiles |-> << >>, expanded |-> 0]
                     ELSE made.last[1]
             placed == placeFeatures(made.grid, params.features, scatter)
         IN [width |-> last.grid.width, height |-> last.grid.height,
             walls |-> last.grid.walls, start |-> last.start, end |-> last.end,
             path |-> last.tiles, expanded |-> last.expanded, called |-> "generateLevel",
             style |-> styleName, routes |-> tilePaths, failed |-> made.failed,
             tiles |-> IF made.thrown \/ Len(tilePaths) = 0 THEN << >> ELSE placed.tiles,
             result |-> IF made.thrown THEN "thrown"
                        ELSE IF Len(tilePaths) = 0 THEN "null" ELSE "ok"]

InitLevel ==
    /\ appStatus = "main-menu"
    /\ gold = InitialGold
    /\ health = InitialHealth
    /\ currentWave = 0
    /\ waveState = initialWaveState
    /\ enemies = << >>
    /\ towers = << >>
    /\ projectiles = << >>
    /\ auras = << >>
    /\ nextId = 1
    /\ pc = 1
    /\ dt = 0
    /\ ran = << >>
    /\ clock = 0
    /\ call = NoCall
    /\ log = EmptyLog
    /\ level = NoLevel
    /\ \/ finder = IdleFinder
       \/ \E walls \in SUBSET CellsOf(GridWidth, GridHeight) :
                /\ Cardinality(walls) <= MaxWalls
                /\ finder = [IdleFinder EXCEPT !.width = GridWidth, !.height = GridHeight,
                                               !.walls = walls]
    /\ legacy = IdleLegacy

LevelCall(c, f) ==
    /\ call' = c
    /\ finder' = f
    /\ UNCHANGED <<appStatus, gold, health, currentWave, waveState, enemies, towers,
                   projectiles, auras, nextId, pc, dt, ran, clock, log, level, legacy>>

\* Pathfinder.findPath(start, end) called on the grid the Pathfinder was built with
FindPathCall(start, end) ==
    /\ finder.called = "none"
    /\ finder.width > 0
    /\ LET found == findPath([width |-> finder.width, height |-> finder.height,
                              walls |-> finder.walls], start, end)
       IN LevelCall([name |-> "findPath"], [finder EXCEPT !.start = start, !.end = end,
                                               !.path = found.path,
                                               !.expanded = found.expanded,
                                               !.called = "findPath"])

\* the random draws of one call of generateLevel for a style
ElbowDraws(params) ==
    {[startY |-> sy + margin, endY |-> ey + margin, elbowX |-> ex + margin * 2] :
        sy \in RandomBelow(params.grid_height - margin * 2),
        ey \in RandomBelow(params.grid_height - margin * 2),
        ex \in RandomBelow(params.grid_width - margin * 4)}

MaxTurns == 3       \* rolls of one wandering walk that move up or down

\* the rolls of a walk that moves forward the given number of times: it ends
\* with the roll that reaches the last column
WalkRolls(steps) ==
    IF steps <= 0 THEN {<< >>}
    ELSE {r \in UNION {[1..n -> {"forward", "up", "down"}] : n \in steps..(steps + MaxTurns)} :
            /\ r[Len(r)] = "forward"
            /\ Cardinality({i \in DOMAIN r : r[i] = "forward"}) = steps}

WanderingDraws(params) ==
    {[startY |-> sy + wanderingMargin, rolls |-> r] :
        sy \in RandomBelow(params.grid_height - wanderingMargin * 2),
        r \in WalkRolls(params.grid_width - 1)}

RECURSIVE DrawsOf(_, _)
DrawsOf(types, params) ==
    IF types = << >> THEN {<< >>}
    ELSE {<< d >> \o rest :
            d \in (IF Head(types) = "elbow" THEN ElbowDraws(params)
                   ELSE WanderingDraws(params)),
            rest \in DrawsOf(Tail(types), params)}

\* the draws of the routes of a style, route by route
RouteDraws(styleName) ==
    IF styleName \notin DOMAIN LevelStyles THEN {<< >>}
    ELSE LET params == LevelStyles[styleName]
             types == DrawnRoutes(params)
         IN IF \A i \in DOMAIN types : types[i] = "elbow"
            THEN [1..Len(types) -> ElbowDraws(params)]
            ELSE IF \A i \in DOMAIN types : types[i] = "wandering"
            THEN [1..Len(types) -> WanderingDraws(params)]
            ELSE DrawsOf(types, params)

\* the tiles the attempts of a placement pick: one tile, then another
ScatterTiles == {Pos(0, 3), Pos(6, 3), Pos(0, 0)}

Tries == {[i \in 1..Attempts |-> IF i < Attempts THEN a ELSE b] :
             a \in ScatterTiles, b \in ScatterTiles}

RECURSIVE ScatterDraws(_)
ScatterDraws(features) ==
    IF features = << >> THEN {<< >>}
    ELSE LET f == Head(features)
             counts == {f.min + r : r \in RandomBelow(f.max - f.min + 1)}
         IN {<< placements >> \o rest :
                placements \in UNION {[1..n -> Tries] : n \in counts},
                rest \in ScatterDraws(Tail(features))}

\* LevelGenerator.generateLevel, which makes its own grid
GenerateLevelCall(styleName, draws, scatter) ==
    /\ finder = IdleFinder
    /\ LevelCall([name |-> "generateLevel", draws |-> draws, scatter |-> scatter],
                 generateLevel(styleName, draws, scatter))

NextLevel ==
    \/ /\ finder.called = "none"
       /\ finder.width > 0
       /\ \E start \in CellsOf(GridWidth, GridHeight), end \in CellsOf(GridWidth, GridHeight) :
             FindPathCall(start, end)
    \/ /\ finder = IdleFinder
       /\ \E styleName \in StyleNames :
             \E draws \in RouteDraws(styleName),
                scatter \in ScatterDraws(IF styleName \in DOMAIN LevelStyles
                                         THEN LevelStyles[styleName].features ELSE << >>) :
                   GenerateLevelCall(styleName, draws, scatter)

SpecLevel == InitLevel /\ [][NextLevel]_vars

\* ------------------------------------------------ projectiles in flight
\* ProjectileManager.update and EnemyManager.update called tick after tick on
\* a session that holds enemies and one or two projectiles in flight; no tower
\* fires and no wave spawns, so the ticks can go on for ever.
MaxPierce == 2      \* pierce charges of a projectile in flight
MaxChains == 1      \* chain charges of a projectile in flight

FlightEnemy(id, type, position, hp) ==
    [id |-> id, type |-> type, route |-> 1, position |-> position,
     currentHp |-> hp, pathIndex |-> 0, effects |-> << >>,
     currentSpeed |-> EnemyTypes[type].speed, currentArmor |-> EnemyTypes[type].armor]

FlightProjectile(id, position, targetId, pierce, chains) ==
    [id |-> id, sourceTowerId |-> 0, position |-> position, targetId |-> targetId,
     speed |-> ProjectileSpeed, damage |-> 3, blastRadius |-> 0,
     pierce |-> pierce, chains |-> chains,
     effectsToApply |-> << >>, onBlastEffects |-> << >>, hitEnemyIds |-> << >>,
     pierce0 |-> pierce, chains0 |-> chains]

FlightIds == {11, 12}

InitFlight ==
    /\ appStatus = "in-game"
    /\ gold = InitialGold
    /\ health = InitialHealth
    /\ currentWave = 1
    /\ waveState = [initialWaveState EXCEPT !.waveInProgress = TRUE]
    /\ \E present \in SUBSET {1, 2} :
          enemies = SelectSeq(<< FlightEnemy(1, "crawler", Paths[1][1], 40),
                                 FlightEnemy(2, "grunt", Paths[1][2], 3) >>,
                              LAMBDA e : e.id \in present)
    /\ \E from \in {[x |-> 48, y |-> 48], [x |-> 648, y |-> 16]},
          targetId \in 1..3, pierce \in 0..MaxPierce, chains \in 0..MaxChains,
          second \in BOOLEAN :
          projectiles =
              << FlightProjectile(11, from, targetId, pierce, chains) >>
              \o (IF second
                  THEN << FlightProjectile(12, [x |-> 48, y |-> 48], targetId, 0, 0) >>
                  ELSE << >>)
    /\ towers = << >>
    /\ auras = << >>
    /\ nextId = 13
    /\ pc = 1
    /\ dt = 0
    /\ ran = << >>
    /\ clock = 0
    /\ call = NoCall
    /\ log = EmptyLog
    /\ level = SessionLevel
    /\ finder = IdleFinder
    /\ legacy = IdleLegacy

\* a tick of the loop as far as the projectiles go: ProjectileManager.update
\* (pc 1), then EnemyManager.update with the same dt (pc 2)
FlightCall(d) ==
    /\ pc = 1
    /\ pc' = 2
    /\ call' = [name |-> "projectileUpdate"]
    /\ dt' = d
    /\ Commit(ProjectileManagerUpdate(Store, d))
    /\ UNCHANGED <<appStatus, ran, clock>>

FlightMover ==
    /\ pc = 2
    /\ pc' = 1
    /\ call' = [name |-> "enemyUpdate"]
    /\ Commit(EnemyManagerUpdate(Store, dt))
    /\ UNCHANGED <<appStatus, dt, ran, clock>>

NextFlight ==
    \/ \E d \in 1..MaxDt : FlightCall(d)
    \/ FlightMover

\* the step every call of a manager takes in the tick
TickAdvances == pc' = 3 - pc

\* the game loop calls update again and again: the managers keep running
SpecFlight == InitFlight /\ [][NextFlight]_vars /\ WF_pc(TickAdvances)

\* ------------------------------------------------------------------ claims
EffectsOf(i) == enemies[i].effects

\* C1: in every tick the six managers run once each in the order tower,
\* projectile, aura, status, enemy, wave: what has run so far in a tick is a
\* prefix of that order, and a finished tick has run all six.
C1_FixedOrder ==
    LET order == <<"tower", "projectile", "aura", "status", "enemy", "wave">>
    IN  /\ Len(ran) <= 6
        /\ \A i \in 1..Len(ran) : ran[i] = order[i]
        /\ (pc = 1 /\ clock > 0) => Len(ran) = 6
        /\ pc # 1 => Len(ran) = pc - 1

C1_Witness == pc = 1 /\ clock > 0 /\ Len(ran) = 6 /\ enemies # << >>

\* C2: an enemy destroyed by damage never reappears in the enemy collection
\* and its bounty is awarded once.
C2_KilledOnce ==
    /\ log.rekilled = {}
    /\ \A i \in 1..Len(enemies) : enemies[i].id \notin log.killed

\* C3: an effect that has decayed for its whole remaining duration since it
\* was last applied is no longer on the enemy.
C3_EffectExpires ==
    \A i \in 1..Len(enemies) :
        \A j \in 1..Len(EffectsOf(i)) : EffectsOf(i)[j].age < EffectsOf(i)[j].due

\* C4: a projectile with pierce 1 and no chains is removed only after its
\* second hit when a second enemy is there to be hit.
C4_PierceHitsTwo ==
    \A r \in log.expended :
        (r.pierce0 = 1 /\ r.chains0 = 0 /\ r.others) => r.hits = 2

\* C5: an aura advanced in ticks that subdivide its duration has dealt
\* dps * duration to an enemy that stayed inside it for its whole lifetime.
C5_AuraTotal ==
    \A r \in log.auraDone :
        (r.exact /\ r.always # {}) => r.dealt = r.dps * r.duration

\* one call of applyStatusEffect on an enemy that carries the incoming kind
C6_Step ==
    (/\ call'.name = "applyStatusEffect"
     /\ Has(enemies, call'.targetId)
     /\ \E j \in 1..Len(Get(enemies, call'.targetId).effects) :
           Get(enemies, call'.targetId).effects[j].id = call'.effect.id)
    => /\ Has(enemies', call'.targetId)
       /\ LET pre == Get(enemies, call'.targetId).effects
              post == Get(enemies', call'.targetId).effects
              K == call'.effect.id
          IN  /\ Len(post) = Len(pre)
              /\ Cardinality({j \in 1..Len(post) : post[j].id = K}) = 1
              /\ \A j \in 1..Len(pre) :
                    IF pre[j].id = K
                    THEN /\ post[j].id = K
                         /\ post[j].potency = Max(pre[j].potency, call'.effect.potency)
                         /\ post[j].timeRemaining
                                = Max(pre[j].timeRemaining, call'.effect.duration)
                    ELSE post[j] = pre[j]

\* C6: applying kind K to an enemy that carries K leaves one instance of K with
\* the larger potency and the larger of remaining time and incoming duration,
\* and every other effect as it was.
C6_RefreshLaw == [][C6_Step]_vars

C6_Witness ==
    /\ call.name = "applyStatusEffect"
    /\ \E i \in 1..Len(enemies) : \E j \in 1..Len(EffectsOf(i)) :
          /\ EffectsOf(i)[j].id = call.effect.id
          /\ EffectsOf(i)[j].refreshed
          /\ EffectsOf(i)[j].potency > call.effect.potency
          /\ EffectsOf(i)[j].timeRemaining = call.effect.duration
          /\ Len(EffectsOf(i)) > 1

\* C7: every enemy carries at most one active effect of each kind.
C7_OnePerKind ==
    \A i \in 1..Len(enemies) :
        \A j, k \in 1..Len(EffectsOf(i)) : j # k => EffectsOf(i)[j].id # EffectsOf(i)[k].id

C7_Witness ==
    \E i \in 1..Len(enemies) :
        /\ Len(EffectsOf(i)) >= 2
        /\ \E j \in 1..Len(EffectsOf(i)) : EffectsOf(i)[j].refreshed

\* C8: the hit list of a projectile has no duplicates and no projectile has
\* applied its damage to the same enemy twice.
C8_NoDoubleHit ==
    /\ log.dblPairs = {}
    /\ \A i \in 1..Len(projectiles) :
          \A j, k \in 1..Len(projectiles[i].hitEnemyIds) :
              j # k => projectiles[i].hitEnemyIds[j] # projectiles[i].hitEnemyIds[k]

C8_Witness ==
    \E r \in log.expended :
        /\ r.hits >= 2
        /\ Cardinality({q \in log.dmgPairs : q[1] = r.id}) >= 2

\* the sum of the collision damage of a set of <<id, type>> pairs
RECURSIVE LeakDamage(_)
LeakDamage(S) ==
    IF S = {} THEN 0
    ELSE LET l == CHOOSE l \in S : TRUE
         IN  EnemyTypes[l[2]].damage + LeakDamage(S \ {l})

\* one step of the session seen from base health
C9_Step ==
    IF pc # 1 /\ UpdateOrder[pc] = "enemy"
    THEN LET done == {i \in 1..Len(enemies) : enemies[i].pathIndex >= LastIndex(enemies[i])}
         IN  /\ health' = health - LeakDamage({<<enemies[i].id, enemies[i].type>> : i \in done})
             /\ \A i \in done : /\ enemies[i].id \notin Ids(enemies')
                                /\ \A l \in log.leaked : l[1] # enemies[i].id
    ELSE health' = health

\* C9: the enemy mover removes every enemy that has consumed its route and
\* deducts its collision damage from base health, no enemy is deducted twice,
\* and nothing else changes base health.
C9_RouteCompletion == [][C9_Step]_vars

C9_Witness ==
    /\ log.leaked # {}
    /\ log.releaked = {}
    /\ health = InitialHealth - LeakDamage(log.leaked)
    /\ \A l \in log.leaked : l[1] \notin Ids(enemies)

\* C10: after the enemy mover has folded the effects, the armor and the speed
\* of every enemy are not negative.
C10_NonNegative ==
    \A i \in 1..Len(enemies) : enemies[i].currentArmor >= 0 /\ enemies[i].currentSpeed >= 0

C10_Witness ==
    /\ call.name = "enemyUpdate"
    /\ \E i \in 1..Len(enemies) :
          /\ \E j, k \in 1..Len(EffectsOf(i)) :
                /\ j < k
                /\ EffectsOf(i)[j].id = "stun"
                /\ EffectsOf(i)[k].id = "slow"
          /\ \E j \in 1..Len(EffectsOf(i)) :
                /\ EffectsOf(i)[j].id = "armor_break"
                /\ EffectsOf(i)[j].potency > EnemyTypes[enemies[i].type].armor
          /\ enemies[i].currentSpeed = 0
          /\ enemies[i].currentArmor = 0

\* the state of the store that the commands work on
storeVars == <<appStatus, gold, health, currentWave, waveState, enemies, towers,
               projectiles, auras, level>>

\* one call of upgradeTower naming an upgrade the tower has already applied
C11_Step ==
    (/\ call'.name = "upgradeTower"
     /\ Has(towers, call'.towerId)
     /\ Contains(Get(towers, call'.towerId).appliedUpgradeIds, call'.upgradeId))
    => UNCHANGED storeVars

\* C11: purchasing an upgrade id that is already in the applied-upgrade list of
\* the tower changes neither the tower (stats, applied list, total investment)
\* nor the currency.
C11_DuplicateRejected == [][C11_Step]_vars

C11_Witness ==
    /\ call.name = "upgradeTower"
    /\ call.duplicate
    /\ LET tower == Get(towers, call.towerId)
           all == TowerUpgrades[tower.type].path_a \o TowerUpgrades[tower.type].path_b
       IN  /\ gold >= all[FindUpgrade(TowerUpgrades[tower.type], call.upgradeId)].cost
           /\ tower.totalInvestment > TowerTypes[tower.type].cost

\* the upgrade the call names costs more than the currency
TooExpensive(towerId, upgradeId) ==
    LET type == Get(towers, towerId).type
        found == FindUpgrade(TowerUpgrades[type], upgradeId)
    IN  gold < (TowerUpgrades[type].path_a \o TowerUpgrades[type].path_b)[found].cost

\* the upgrade id is defined for the type of the tower
Defined(towerId, upgradeId) ==
    /\ Get(towers, towerId).type \in DOMAIN TowerUpgrades
    /\ FindUpgrade(TowerUpgrades[Get(towers, towerId).type], upgradeId) # 0

\* one call of upgradeTower with an unknown tower, an undefined upgrade or no money
C12_Step ==
    (/\ call'.name = "upgradeTower"
     /\ \/ ~Has(towers, call'.towerId)
        \/ ~Defined(call'.towerId, call'.upgradeId)
        \/ TooExpensive(call'.towerId, call'.upgradeId))
    => UNCHANGED storeVars

\* C12: an upgrade purchase that names an unknown tower id, an upgrade id not
\* defined for that tower, or an upgrade that costs more than the currency
\* changes nothing: currency and all towers are as before.
C12_InvalidUpgradeRejected == [][C12_Step]_vars

C12_Witness ==
    /\ call.name = "upgradeTower"
    /\ Has(towers, call.towerId)
    /\ Defined(call.towerId, call.upgradeId)
    /\ ~call.duplicate
    /\ TooExpensive(call.towerId, call.upgradeId)
    /\ gold > 0

\* one click on a tile with a known tower type selected, on the grid of a session
C13_Step ==
    (/\ call'.name = "handleClick"
     /\ call'.selected \in DOMAIN TowerTypes
     /\ level.grid.width > 0)
    => IF \/ gold < TowerTypes[call'.selected].cost
          \/ getTile(level.grid, call'.tile) # "BUILDABLE"
       THEN UNCHANGED storeVars
       ELSE /\ gold' = gold - TowerTypes[call'.selected].cost
            /\ Len(towers') = Len(towers) + 1
            /\ SubSeq(towers', 1, Len(towers)) = towers
            /\ towers'[Len(towers')].tilePosition = call'.tile
            /\ towers'[Len(towers')].type = call'.selected

\* C13: a place-tower command is rejected with no state change when the
\* currency is below the cost of the tower type or the tile is not buildable;
\* an accepted one creates exactly one tower on the tile and deducts its cost.
C13_PlaceValidated == [][C13_Step]_vars

C13_Witness ==
    /\ call.name = "handleClick"
    /\ call.selected \in DOMAIN TowerTypes
    /\ getTile(level.grid, call.tile) = "PATH"
    /\ gold >= TowerTypes[call.selected].cost
    /\ \A i \in 1..Len(towers) : towers[i].tilePosition # call.tile

\* C14: no two towers occupy the same tile.
C14_OneTowerPerTile ==
    \A i, j \in 1..Len(towers) : i # j => towers[i].tilePosition # towers[j].tilePosition

\* one call of update(dt) while the application status is not in-game
C16_Step ==
    (call'.name = "update" /\ appStatus # "in-game")
    => UNCHANGED <<storeVars, nextId, log, clock, pc, ran>>

\* C16: advancing a tick while no session is active changes nothing: no entity
\* collection, currency, base health, wave number or wave state is modified and
\* no manager runs.
C16_IdleAdvance == [][C16_Step]_vars

C16_Witness ==
    /\ call.name = "update"
    /\ appStatus = "paused"
    /\ towers # << >>
    /\ enemies # << >>
    /\ waveState.waveInProgress
    /\ waveState.spawnQueue # << >>

\* one call of initializeGameSession whose level generation fails
C17_Step ==
    (call'.name = "initializeGameSession" /\ call'.result # "ok")
    => UNCHANGED <<storeVars, nextId, log>>

\* C17: when level generation fails in initializeGameSession (no result or no
\* routes), the application status, grid, routes, managers, currency, base
\* health, wave state and all entity collections are what they were.
C17_FailedStart == [][C17_Step]_vars

C17_Witness ==
    /\ call.name = "initializeGameSession"
    /\ call.result = "noPaths"
    /\ appStatus = "in-game"
    /\ towers # << >>
    /\ gold < InitialGold

\* one sale of the selected tower straight after its placement
C15_Step ==
    (/\ call'.name = "handleSellTower"
     /\ legacy.selectedTower # -1
     /\ legacy.placed.id = legacy.selectedTower)
    => LET i == CHOOSE i \in 1..Len(legacy.towers) :
                    legacy.towers[i].id = legacy.selectedTower
           C == LegacyTowerTypes[legacy.towers[i].type].cost
       IN  /\ legacy'.money = legacy.placed.before - C + (C * SellRate) \div 100
           /\ \A j \in 1..Len(legacy'.towers) :
                 legacy'.towers[j].id # legacy.selectedTower

\* C15: placing a tower of cost C and selling it straight away leaves the
\* currency at initial - C + floor(C * refund rate) and the tower is gone.
C15_PlaceThenSell == [][C15_Step]_vars

C15_Witness ==
    /\ call.name = "handleSellTower"
    /\ legacy.last.op = "sell"
    /\ legacy.last.immediate
    /\ legacy.last.cost = 250
    /\ legacy.towers = << >>
    /\ legacy.money = LegacyInitialMoney - 250 + 187

\* ---- the routes of a grid, by breadth-first layers
Walkable(f, c) ==
    c.x >= 0 /\ c.x < f.width /\ c.y >= 0 /\ c.y < f.height /\ c \notin f.walls

Adjacent(a, b) == getDistance(a, b) = 1

\* the tiles of the shortest walkable route from a tile of the frontier (the
\* layer of routes of n tiles) to end, 0 when there is none
RECURSIVE FewestTiles(_, _, _, _)
FewestTiles(f, frontier, seen, n) ==
    IF f.end \in frontier THEN n
    ELSE IF frontier = {} THEN 0
    ELSE LET around == {Pos(b.x + d, b.y) : b \in frontier, d \in {-1, 1}}
                           \cup {Pos(b.x, b.y + d) : b \in frontier, d \in {-1, 1}}
             layer == {c \in around \ seen : Walkable(f, c)}
         IN FewestTiles(f, layer, seen \cup layer, n + 1)

ShortestRoute(f) == FewestTiles(f, {f.start}, {f.start}, 1)

Reachable(f) == ShortestRoute(f) > 0

IsRoute(f) ==
    /\ f.path[1] = f.start
    /\ f.path[Len(f.path)] = f.end
    /\ \A i \in 1..(Len(f.path) - 1) :
          Adjacent(f.path[i], f.path[i + 1]) /\ Walkable(f, f.path[i + 1])

\* C18: a non-empty route returned by findPath starts at the start tile, ends
\* at the end tile, steps only to 4-directionally adjacent walkable tiles and
\* has as few tiles as any walkable route between the two tiles of that grid.
C18_ShortestRoute ==
    (finder.called = "findPath" /\ finder.path # << >>)
        => IsRoute(finder) /\ Len(finder.path) = ShortestRoute(finder)

\* C19: findPath returns after at most one pass of its loop per tile of the
\* grid, with a non-empty route exactly when the end tile can be reached from
\* the start tile through adjacent walkable tiles, and with the empty route
\* otherwise.
C19_RouteIffReachable ==
    finder.expanded > 0
        => /\ finder.expanded <= Max(1, finder.width * finder.height)
           /\ (finder.path # << >>) <=> Reachable(finder)

C19_Witness ==
    /\ finder.called = "findPath"
    /\ finder.path = << >>
    /\ finder.expanded > 1
    /\ finder.start # finder.end
    /\ finder.start \notin finder.walls
    /\ ~Reachable(finder)

\* C20: whatever entry row, exit row and elbow column are drawn, generating a
\* level of 20 by 12 tiles with one elbow route gives a non-empty route from a
\* tile of column 0 to a tile of the last column.
C20_ElbowRoute ==
    (finder.called = "generateLevel" /\ finder.style = "plains")
        => /\ finder.result = "ok"
           /\ finder.routes = << finder.path >>
           /\ finder.path # << >>
           /\ finder.path[1].x = 0
           /\ finder.path[Len(finder.path)].x = LevelParams.grid_width - 1

C20_Witness ==
    /\ finder.called = "generateLevel"
    /\ finder.style = "plains"
    /\ finder.result = "ok"
    /\ finder.routes = << finder.path >>
    /\ finder.width = LevelParams.grid_width
    /\ finder.height = LevelParams.grid_height
    /\ finder.start.y # finder.end.y
    /\ Len(finder.path) > LevelParams.grid_width
    /\ IsRoute(finder)

\* C21: generateLevel throws in no case, and its result is null when the style
\* id is unknown, when no route was made and when some carved route was not
\* confirmed by the pathfinder.
C21_FailureIsNull ==
    finder.called = "generateLevel"
        => /\ finder.result # "thrown"
           /\ (\/ finder.style \notin DOMAIN LevelStyles
               \/ finder.routes = << >>
               \/ finder.failed > 0) => finder.result = "null"

\* C22: after a successful generateLevel every tile of every returned route is
\* still tagged path, spawn or end, whatever tiles the scattering of the
\* features picked.
C22_RoutesKeepTiles ==
    (finder.called = "generateLevel" /\ finder.result = "ok")
        => \A i \in DOMAIN finder.routes : \A j \in DOMAIN finder.routes[i] :
              isWalkable(finder.tiles[finder.routes[i][j]])

C22_Witness ==
    /\ finder.called = "generateLevel"
    /\ finder.result = "ok"
    /\ Len(finder.routes) = 2
    /\ \E c \in DOMAIN finder.tiles : finder.tiles[c] = "MOUNTAIN"
    /\ \E k \in DOMAIN call.scatter[1] : \E i \in DOMAIN finder.routes :
          \E j \in DOMAIN finder.routes[i] :
             /\ call.scatter[1][k][1] = finder.routes[i][j]
             /\ call.scatter[1][k][Attempts] = finder.routes[i][j]

\* one step of the session seen from the ground auras
C23_Step ==
    /\ \A i \in DOMAIN auras :
          LET aura == auras[i]
          IN  IF UpdateOrder[pc] = "aura" /\ pc' # pc
              THEN IF aura.timeRemaining - dt <= 0
                   THEN ~Has(auras', aura.id)
                   ELSE /\ Has(auras', aura.id)
                        /\ Get(auras', aura.id).timeRemaining = aura.timeRemaining - dt
              ELSE Has(auras', aura.id) => Get(auras', aura.id) = aura
    /\ \A i \in DOMAIN auras' :
          ~Has(auras, auras'[i].id)
              => /\ auras'[i].timeRemaining = auras'[i].duration
                 /\ \A r \in log.auraDone : r.id # auras'[i].id
    /\ \A r \in log'.auraDone : ~Has(auras', r.id)

\* C23: a ground aura starts with its duration as time remaining, every run
\* of the aura manager takes the tick's dt off it and removes the aura in the
\* run in which nothing remains, nothing else changes it, and a removed aura
\* is never again in the collection the aura manager damages enemies from.
C23_AuraExpires == [][C23_Step]_vars

C23_Witness ==
    /\ enemies # << >>
    /\ auras # << >>
    /\ \E r \in log.auraDone :
          /\ r.duration > 1
          /\ r.dealt > 0
          /\ ~Has(auras, r.id)

\* the enemies inside the circle of the tower's range around its centre
WithinRange(tower) ==
    {j \in DOMAIN enemies :
        DistanceSq([x |-> tower.tilePosition.x * 32 + 16, y |-> tower.tilePosition.y * 32 + 16],
                   enemies[j].position) <= tower.currentRange * tower.currentRange}

\* one run of the tower manager seen from the targets it picks
C24_Step ==
    (UpdateOrder[pc] = "tower" /\ pc' # pc)
    => /\ \A i \in DOMAIN projectiles' :
             ~Has(projectiles, projectiles'[i].id)
                 => \E j \in WithinRange(Get(towers, projectiles'[i].sourceTowerId)) :
                       enemies[j].id = projectiles'[i].targetId
       /\ \A i \in DOMAIN auras' :
             ~Has(auras, auras'[i].id)
                 => \E j \in WithinRange(Get(towers, auras'[i].sourceTowerId)) :
                       enemies[j].position = auras'[i].position
       /\ \A i \in DOMAIN towers :
             (/\ TowerTypes[towers[i].type].attack.type # "none"
              /\ Max(0, towers[i].cooldown - dt') = 0)
                 => (WithinRange(towers[i]) # {}) <=> (Get(towers', towers[i].id).cooldown > 0)

\* C24: the target of every attack of a tower is an enemy no farther from the
\* tower's centre than the tower's range, and a tower whose cooldown has run
\* out attacks exactly when some enemy is that near.
C24_TargetInRange == [][C24_Step]_vars

C24_Witness ==
    /\ ran = << "tower" >>
    /\ \E i \in DOMAIN projectiles : \E k \in DOMAIN towers : \E j \in DOMAIN enemies :
          /\ projectiles[i].sourceTowerId = towers[k].id
          /\ projectiles[i].position = TowerCenter(towers[k])
          /\ enemies[j].id # projectiles[i].targetId
          /\ enemies[j].pathIndex > Get(enemies, projectiles[i].targetId).pathIndex
          /\ j \notin WithinRange(towers[k])

\* the store as the loop of the running manager leaves it, before the commit
BeforeCommit ==
    CASE UpdateOrder[pc] = "status" ->
            StatusLoop([s |-> Store, updatedEnemies |-> << >>], enemies, dt).s
      [] UpdateOrder[pc] = "projectile" ->
            ProjectileLoop([s |-> Store, updatedProjectiles |-> projectiles],
                           projectiles, enemies, dt).s
      [] UpdateOrder[pc] = "aura" ->
            AuraLoop([s |-> Store, updatedAuras |-> auras], auras, enemies, dt).s
      [] OTHER -> Store

\* one run of the projectile, aura or status manager seen from its commit
C25_Step ==
    (pc' # pc /\ UpdateOrder[pc] \in {"projectile", "aura", "status"})
    => /\ gold' = BeforeCommit.gold
       /\ \A i \in DOMAIN enemies' :
             /\ Has(BeforeCommit.enemies, enemies'[i].id)
             /\ Get(BeforeCommit.enemies, enemies'[i].id).currentHp = enemies'[i].currentHp

\* C25: the commit that ends a run of the projectile, aura or status manager
\* keeps what the run did to each enemy before it: an enemy the run destroyed
\* stays out of the collection and an enemy the run damaged keeps the health
\* the damage left it.
C25_CommitKeepsChanges == [][C25_Step]_vars

\* potency * d summed over the fire, bleed and poison effects of a list that
\* are still active after d more seconds
RECURSIVE ActiveDoT(_, _)
ActiveDoT(effects, d) ==
    IF effects = << >> THEN 0
    ELSE (IF Head(effects).id \in {"fire", "bleed", "poison"}
             /\ Head(effects).timeRemaining - d > 0
          THEN Head(effects).potency * d ELSE 0) + ActiveDoT(Tail(effects), d)

\* one run of the status manager seen from the health of the enemies
C26_Step ==
    (pc' # pc /\ UpdateOrder[pc] = "status")
    => \A i \in DOMAIN enemies :
          ActiveDoT(enemies[i].effects, dt) > 0
              => \/ ~Has(enemies', enemies[i].id)
                 \/ Get(enemies', enemies[i].id).currentHp
                        = enemies[i].currentHp - ActiveDoT(enemies[i].effects, dt)

\* C26: a run of the status manager leaves every enemy that carries a still
\* active fire, bleed or poison effect destroyed or with its health lower by
\* potency * dt for each such effect, also when another effect of the enemy
\* expires in that run.
C26_DoTApplied == [][C26_Step]_vars



\* the store's enemies at the moment update comes to its k-th projectile
EnemiesWhenResolved(k) ==
    ProjectileLoop([s |-> Store, updatedProjectiles |-> projectiles],
                   SubSeq(projectiles, 1, k - 1), enemies, dt).s.enemies

C27_Step ==
    (pc' # pc /\ UpdateOrder[pc] = "projectile")
    => \A k \in DOMAIN projectiles :
          LET p == projectiles[k]
              live == EnemiesWhenResolved(k)
              fallback == findNewTarget(p.position, live, p.hitEnemyIds, RetargetRange)
          IN  ~Has(live, p.targetId)
                  => IF fallback = 0 THEN ~Has(projectiles', p.id)
                     ELSE IF Has(projectiles', p.id)
                          THEN /\ Get(projectiles', p.id).targetId # p.targetId
                               /\ Contains(Get(projectiles', p.id).hitEnemyIds, p.targetId)
                                      => Contains(p.hitEnemyIds, p.targetId)
                          ELSE <<p.id, live[fallback].id>> \in log'.dmgPairs

\* C27: a projectile whose target is gone when update comes to it, also a
\* target another projectile removed earlier in the same tick, does not hit
\* the removed enemy: it is re-targeted to the nearest enemy it has not hit
\* within the fallback radius (and may hit that one), or, when there is none,
\* it leaves the collection in that tick
C27_GoneTargetNotHit == [][C27_Step]_vars


\* the target update gives its k-th projectile (0: none), and whether the
\* projectile reaches it in this tick
TargetOf(k) ==
    LET p == projectiles[k]
    IN  IF Has(enemies, p.targetId) THEN IndexOf(enemies, p.targetId)
        ELSE findNewTarget(p.position, enemies, p.hitEnemyIds, RetargetRange)

Reaches(k) ==
    /\ TargetOf(k) # 0
    /\ (projectiles[k].speed * dt) * (projectiles[k].speed * dt)
           >= DistanceSq(projectiles[k].position, enemies[TargetOf(k)].position)

\* the enemy handleHit chains to from the k-th projectile's target (0: none):
\* the nearest enemy in the store that the projectile has not hit once the
\* target and the enemies in the blast are hit
ChainTarget(k) ==
    LET before == ProjectileLoop([s |-> Store, updatedProjectiles |-> projectiles],
                                 SubSeq(projectiles, 1, k - 1), enemies, dt).s
        target == enemies[TargetOf(k)]
        inBlast == IF projectiles[k].blastRadius > 0
                   THEN {before.enemies[i].id : i \in {j \in DOMAIN before.enemies :
                            DistanceSq(target.position, before.enemies[j].position)
                                <= projectiles[k].blastRadius * projectiles[k].blastRadius}}
                   ELSE {}
        untouched == SelectSeq(before.enemies, LAMBDA e :
                        /\ e.id # target.id
                        /\ e.id \notin inBlast
                        /\ ~Contains(projectiles[k].hitEnemyIds, e.id)
                        /\ DistanceSq(target.position, e.position) < ChainRange * ChainRange)
    IN  IF untouched = << >> THEN 0
        ELSE (CHOOSE e \in {untouched[i] : i \in DOMAIN untouched} :
                \A o \in {untouched[i] : i \in DOMAIN untouched} :
                    DistanceSq(target.position, e.position)
                        <= DistanceSq(target.position, o.position)).id

C28_Step ==
    (pc' # pc /\ UpdateOrder[pc] = "projectile")
    => \A k \in DOMAIN projectiles :
          LET p == projectiles[k]
          IN  (Reaches(k) /\ p.pierce = 0 /\ p.chains >= 1)
                  => IF ChainTarget(k) # 0
                     THEN /\ Has(projectiles', p.id)
                          /\ Get(projectiles', p.id).chains = p.chains - 1
                          /\ Has(enemies', ChainTarget(k))
                                 => Get(projectiles', p.id).targetId \in Ids(enemies')
                     ELSE ~Has(projectiles', p.id)

\* C28: after a hit by a projectile with no pierce charge and at least one
\* chain charge, the projectile stays in the collection with one chain
\* charge less and an enemy as its target when an enemy it has not hit is
\* within the chain radius, and leaves the collection when there is none
C28_ChainContinues == [][C28_Step]_vars


\* one call of WaveManager.update in which the countdown runs out
C29_Step ==
    (/\ pc' # pc
     /\ UpdateOrder[pc] = "wave"
     /\ ~waveState.waveInProgress
     /\ waveState.timeToNextWave - dt <= 0)
    => /\ waveState'.waveInProgress
       /\ currentWave' = currentWave + 1
       /\ Len(waveState'.spawnQueue)
              = (WaveScaling.enemy_count.base
                     + WaveScaling.enemy_count.per_wave * currentWave'
                     + WaveScaling.enemy_count.per_level_difficulty * GameSettings.difficulty)
                \div One
       /\ \A i \in DOMAIN waveState'.spawnQueue :
             EnemyTypes[waveState'.spawnQueue[i]].min_level_difficulty
                 <= GameSettings.difficulty
       /\ waveState'.spawnCooldown = 0

\* C29: when the countdown between the waves reaches zero the wave manager
\* starts spawning in that tick: the wave number grows by one, the spawn queue
\* holds the rounded-down number of entries the linear formula gives for the
\* new wave number, each entry an enemy type the difficulty allows, and the
\* spawn cooldown is zero
C29_WaveStarts == [][C29_Step]_vars

C29_Witness ==
    /\ pc = 1
    /\ ran # << >>
    /\ ran[Len(ran)] = "wave"
    /\ waveState.waveInProgress
    /\ waveState.timeToNextWave <= 0
    /\ currentWave = 1
    /\ Len(waveState.spawnQueue) = 2
    /\ waveState.spawnCooldown = 0
    /\ enemies = << >>


\* the delay handleSpawning reads from the difficulty table, 15 when the
\* table gives none
ConfiguredDelay ==
    IF DifficultyScaling.time_between_waves # 0
    THEN DifficultyScaling.time_between_waves ELSE 15

C30_Step ==
    /\ (waveState.waveInProgress /\ ~waveState'.waveInProgress)
           => /\ UpdateOrder[pc] = "wave"
              /\ pc' # pc
              /\ waveState.spawnQueue = << >>
              /\ enemies = << >>
              /\ waveState'.timeToNextWave = ConfiguredDelay
    /\ (waveState.waveInProgress /\ (waveState.spawnQueue # << >> \/ enemies # << >>))
           => /\ waveState'.waveInProgress
              /\ currentWave' = currentWave

C31_Step ==
    (pc' # pc /\ UpdateOrder[pc] = "wave" /\ waveState.waveInProgress
        /\ waveState.spawnQueue # << >>)
    => IF waveState.spawnCooldown - dt <= 0
       THEN /\ waveState'.spawnQueue = Tail(waveState.spawnQueue)
            /\ Len(enemies') = Len(enemies) + 1
            /\ \A i \in DOMAIN enemies : enemies'[i] = enemies[i]
            /\ LET new == enemies'[Len(enemies')]
               IN  /\ ~Has(enemies, new.id)
                   /\ new.type = Head(waveState.spawnQueue)
                   /\ new.pathIndex = 0
                   /\ \E r \in DOMAIN Paths : new.route = r /\ new.position = Paths[r][1]
       ELSE /\ waveState'.spawnQueue = waveState.spawnQueue
            /\ enemies' = enemies

\* C31: during a wave, each time the spawn cooldown reaches zero one enemy of
\* the type at the head of the queue is created at the first point of a route
\* with path index 0 and the queue loses that head entry; otherwise neither
\* the queue nor the enemies change
C31_OneEnemyPerEntry == [][C31_Step]_vars

C31_Witness ==
    /\ pc = 1
    /\ ran # << >>
    /\ ran[Len(ran)] = "wave"
    /\ waveState.waveInProgress
    /\ Len(waveState.spawnQueue) = 1
    /\ currentWave = 1
    /\ \E i \in DOMAIN enemies :
          /\ enemies[i].pathIndex = 0
          /\ enemies[i].position = Paths[enemies[i].route][1]
          /\ enemies[i].currentHp = EnemyTypes[enemies[i].type].hp


\* the attacks of a tower seen in the step: the projectiles and ground auras
\* it is the source of that the step has added
Launched(tower) ==
    Cardinality({projectiles'[i].id : i \in {k \in DOMAIN projectiles' :
                    /\ projectiles'[k].sourceTowerId = tower.id
                    /\ ~Has(projectiles, projectiles'[k].id)}})
    + Cardinality({auras'[i].id : i \in {k \in DOMAIN auras' :
                    /\ auras'[k].sourceTowerId = tower.id
                    /\ ~Has(auras, auras'[k].id)}})

BuffedFireRate(tower) ==
    applySupportBuffs(tower,
        SelectSeq(towers, LAMBDA t : TowerTypes[t.type].auras # << >>)).currentFireRate

\* one run of the tower manager seen from the cooldowns
C32_Step ==
    /\ \A i \in DOMAIN towers : towers[i].cooldown >= 0
    /\ (UpdateOrder[pc] = "tower" /\ pc' # pc)
       => \A i \in DOMAIN towers :
             LET tower == towers[i]
                 after == Get(towers', tower.id)
             IN  /\ Has(towers', tower.id)
                 /\ Launched(tower) <= 1
                 /\ Launched(tower) = 1
                       => /\ tower.cooldown - dt' <= 0
                          /\ WithinRange(tower) # {}
                          /\ after.cooldown = IF BuffedFireRate(tower) > 0
                                              THEN One \div BuffedFireRate(tower)
                                              ELSE 1
                          /\ after.cooldown > 0
                 /\ Launched(tower) = 0 /\ TowerTypes[tower.type].attack.type
                                              \in {"standard_projectile",
                                                   "persistent_ground_aura"}
                       => after.cooldown = Max(0, tower.cooldown - dt')

C33_Step ==
    \A i \in DOMAIN towers :
       /\ Has(towers', towers[i].id)
       /\ [Get(towers', towers[i].id) EXCEPT !.cooldown = towers[i].cooldown] = towers[i]

\* C33: a tick changes nothing of a stored tower but its cooldown: damage,
\* range, fire rate, pierce, chains, applied upgrades and total investment
\* stay what they were, also next to a support tower whose buff the attack
\* has used
C33_BuffsNotStored == [][C33_Step]_vars

C33_Witness ==
    \E k \in DOMAIN towers : \E i \in DOMAIN projectiles :
       /\ projectiles[i].sourceTowerId = towers[k].id
       /\ projectiles[i].damage > towers[k].currentDamage
       /\ towers[k].currentDamage = TowerTypes[towers[k].type].attack.damage
       /\ towers[k].cooldown > 0
       /\ \E b \in DOMAIN towers : towers[b].type = "banner"


\* one run of the tower manager seen from the route progress of its targets
C34_Step ==
    (UpdateOrder[pc] = "tower" /\ pc' # pc)
    => /\ \A i \in DOMAIN projectiles' :
             ~Has(projectiles, projectiles'[i].id)
                 => LET near == WithinRange(Get(towers, projectiles'[i].sourceTowerId))
                    IN  \E j \in near :
                           /\ enemies[j].id = projectiles'[i].targetId
                           /\ \A o \in near : enemies[o].pathIndex <= enemies[j].pathIndex
       /\ \A i \in DOMAIN auras' :
             ~Has(auras, auras'[i].id)
                 => LET near == WithinRange(Get(towers, auras'[i].sourceTowerId))
                    IN  \E j \in near :
                           /\ enemies[j].position = auras'[i].position
                           /\ \A o \in near : enemies[o].pathIndex <= enemies[j].pathIndex

\* C34: the target of every attack is an enemy in the tower's range that no
\* other enemy in that range is ahead of: none of them has a greater path
\* index
C34_FurthestAlong == [][C34_Step]_vars

C34_Witness ==
    /\ ran = << "tower" >>
    /\ \E i \in DOMAIN projectiles : \E k \in DOMAIN towers :
          /\ projectiles[i].sourceTowerId = towers[k].id
          /\ projectiles[i].hitEnemyIds = << >>
          /\ projectiles[i].position = [x |-> towers[k].tilePosition.x * 32 + 16,
                                        y |-> towers[k].tilePosition.y * 32 + 16]
          /\ \E a \in WithinRange(towers[k]) : \E b \in WithinRange(towers[k]) :
                /\ a < b
                /\ enemies[b].id = projectiles[i].targetId
                /\ enemies[a].pathIndex < enemies[b].pathIndex


\* C35: under repeated calls of the projectile manager with dt > 0 every
\* projectile in the collection is removed from it at some later time
C35_EventuallyRemoved ==
    \A id \in FlightIds : Has(projectiles, id) ~> ~Has(projectiles, id)

C35_Witness ==
    /\ projectiles = << >>
    /\ \E r \in log.expended : r.id = 11 /\ r.pierce0 = MaxPierce /\ r.hits = 1
    /\ enemies # << >>


\* C36: whatever the grid size of the style and whatever the walk rolls, the
\* tiles a wandering route carves connect its spawn tile in column 0 to its
\* end tile in the last column by steps between side-by-side tiles, and the
\* pathfinder confirms the route with a non-empty tile sequence.
WanderingStyles ==
    {s \in DOMAIN LevelStyles :
        /\ RouteTypes(LevelStyles[s].paths_config) # << >>
        /\ \A i \in DOMAIN RouteTypes(LevelStyles[s].paths_config) :
              RouteTypes(LevelStyles[s].paths_config)[i] = "wandering"}

C36_WanderingRoute ==
    (finder.called = "generateLevel" /\ finder.style \in WanderingStyles)
        => /\ finder.start.x = 0
           /\ finder.end.x = finder.width - 1
           /\ Reachable(finder)
           /\ finder.path # << >>
           /\ finder.failed = 0
           /\ finder.result = "ok"

\* the same on grids tall enough for the margin on both sides
C36_TallGrid ==
    (/\ finder.called = "generateLevel"
     /\ finder.style \in WanderingStyles
     /\ finder.height >= 2 * wanderingMargin)
        => /\ finder.start.x = 0
           /\ finder.end.x = finder.width - 1
           /\ Reachable(finder)
           /\ IsRoute(finder)
           /\ finder.result = "ok"

C36_TallWitness ==
    /\ finder.called = "generateLevel"
    /\ finder.style = "meadow"
    /\ finder.start.y # finder.end.y
    /\ Len(finder.path) > finder.width
    /\ finder.result = "ok"


\* C37: gold is never negative, whatever clicks that place towers, purchases
\* of upgrades and ticks follow the start of a session.
C37_GoldNonNegative == gold >= 0

C37_Witness ==
    /\ gold = 0
    /\ call.name = "upgradeTower"
    /\ Has(towers, call.towerId)
    /\ Get(towers, call.towerId).type \in DOMAIN TowerUpgrades
    /\ call.upgradeId \in {"a1", "b1"}
    /\ ~Contains(Get(towers, call.towerId).appliedUpgradeIds, call.upgradeId)


\* C38: the health of the base is never negative: when enemies reach the end
\* of the route with more collision damage than the base has health left, the
\* health ends at zero.
C38_HealthNonNegative == health >= 0


\* C39: whenever the wave director is counting down to the next wave its spawn
\* queue is empty; a spawn queue that holds an entry means a wave is in
\* progress.
C39_CountdownQueueEmpty ==
    ~waveState.waveInProgress => waveState.spawnQueue = << >>

C39_Witness ==
    /\ currentWave >= 1
    /\ ~waveState.waveInProgress
    /\ waveState.spawnQueue = << >>
    /\ enemies = << >>
    /\ log.killed \cup log.leaked # {}

====
